---- MODULE Spec2Model ----
(***************************************************************************)
(* Model of the chatpayg chat client: the session store                    *)
(* (useChatOperations), the message-exchange pipeline (sendMessage, in its *)
(* three variants: the mock pipeline of ChatContext.tsx, the blocking      *)
(* edge-function pipeline of useMessageHandler and the streaming pipeline  *)
(* of the streaming useMessageHandler) and the streaming decoder.          *)
(*                                                                         *)
(* React state is modelled by value.  An async handler in flight is an     *)
(* element of the bag ops:                                                 *)
(* it captures the values of its render (user, currentModel,               *)
(* currentSession, chatHistory) when it is invoked and then takes one step *)
(* per await.  Timestamps (createdAt, updatedAt, timestamp) are left out:  *)
(* the durable tables are kept in the order their queries return.          *)
(* Money is counted in units of 1e-4 dollar so that costs are integers.    *)
(***************************************************************************)
EXTENDS Integers, Sequences, FiniteSets, Bags, TLC

VARIABLES
    mode,            \* which variant of sendMessage the provider mounts
    user,            \* useAuth().user
    currentModel,    \* useState<AIModel>
    chatHistory,     \* useState<ChatSession[]>
    currentSession,  \* useState<ChatSession | null>
    isProcessing,    \* useState(false)
    totalCost,       \* useState(0), recomputed by the chatHistory effect
    dbSessions,      \* table chat_sessions, most recently updated first
    dbMessages,      \* table chat_messages, in timestamp order
    nextId,          \* the next value uuidv4() returns
    ops,             \* the async handlers in flight
    remoteCalls,     \* log of the requests sent to the remote model
    dbLog,           \* log of the durable writes issued by sendMessage
    last             \* the step taken last (observation only)

vars == <<mode, user, currentModel, chatHistory, currentSession, isProcessing,
          totalCost, dbSessions, dbMessages, nextId, ops, remoteCalls, dbLog, last>>

reactVars == <<user, currentModel, chatHistory, currentSession, isProcessing, totalCost>>
storeVars == <<dbSessions, dbMessages>>

-----------------------------------------------------------------------------
(* Bounds of the model *)

MaxIds == 3
MaxOps == 2

(* Program constants *)

TitleLen == 30
MinTokens == 5
RateOpenai == 5
RateGemini == 3

Users == {"u1", "u2"}
NoUser == "none"
Models == {"openai", "gemini"}
NoSession == [id |-> 0]
Undef == -1
Booted == [op |-> "init"]
Quiet == [op |-> "step"]

-----------------------------------------------------------------------------
(* Sequence helpers *)

RECURSIVE SumSeq(_)
SumSeq(s) == IF s = <<>> THEN 0 ELSE Head(s) + SumSeq(Tail(s))

FilterSeq(s, Keep(_)) == SelectSeq(s, Keep)

MapSeq(s, F(_)) == [i \in 1..Len(s) |-> F(s[i])]

\* Array.prototype.find: the first element satisfying Test, or None
Find(s, Test(_), None) ==
    IF \E i \in 1..Len(s) : Test(s[i])
    THEN s[CHOOSE i \in 1..Len(s) : Test(s[i]) /\ \A j \in 1..(i-1) : ~Test(s[j])]
    ELSE None

\* the handlers in flight: starting one, ending one, replacing one by its next stage
CanStart == BagCardinality(ops) < MaxOps
Started(r) == ops (+) SetToBag({r})
Ended(r) == ops (-) SetToBag({r})
Moved(r, r2) == (ops (-) SetToBag({r})) (+) SetToBag({r2})
InFlight == BagToSet(ops)

-----------------------------------------------------------------------------
(* Session store: useChatOperations *)

\* (a createNewSession that gives the session another title)
NewSessionUntitled(id, model) ==
    [id |-> id, title |-> <<"Untitled">>, messages |-> <<>>, model |-> model,
     totalCost |-> 0, totalTokens |-> 0]

\* the object createNewSession builds
NewSession(id, model) ==
    [id |-> id, title |-> <<"New Chat">>, messages |-> <<>>, model |-> model,
     totalCost |-> 0, totalTokens |-> 0]

\* the row the insert of createNewSession leaves in chat_sessions
NewSessionRow(id, owner, model) ==
    [id |-> id, user_id |-> owner, title |-> <<"New Chat">>, model |-> model,
     total_tokens |-> 0, total_cost |-> 0]

\* the chatHistory effect: the sum of the sessions' totalCost
CalcTotalCost(history) == SumSeq([i \in 1..Len(history) |-> history[i].totalCost])

\* select * from chat_sessions order by updated_at desc, for the signed-in owner
SelectSessions(owner) == FilterSeq(dbSessions, LAMBDA r : r.user_id = owner)

\* select * from chat_messages where session_id = sid order by timestamp
SelectMessages(sid) == FilterSeq(dbMessages, LAMBDA r : r.session_id = sid)

FormatMessage(row) ==
    [id |-> row.id, content |-> row.content, sender |-> row.sender,
     model |-> row.model, tokens |-> row.tokens, cost |-> row.cost, obj |-> 0]

FormatSession(row, msgs) ==
    [id |-> row.id, title |-> row.title, messages |-> MapSeq(msgs, FormatMessage),
     model |-> row.model, totalCost |-> row.total_cost, totalTokens |-> row.total_tokens]

\* delete from chat_sessions where id = sid, cascading to chat_messages
DeleteRows(sid) ==
    /\ dbSessions' = FilterSeq(dbSessions, LAMBDA r : r.id # sid)
    /\ dbMessages' = FilterSeq(dbMessages, LAMBDA r : r.session_id # sid)

\* (a setChatHistory whose effect does not run)
SetChatHistoryOnly(h) ==
    /\ chatHistory' = h
    /\ UNCHANGED totalCost

\* setChatHistory, followed by the effect that recomputes totalCost
SetChatHistory(h) ==
    /\ chatHistory' = h
    /\ totalCost' = CalcTotalCost(h)

\* the auth provider signs a principal in; the [user] effect starts fetchChatHistory
Login(u) ==
    /\ user # u
    /\ CanStart
    /\ user' = u
    /\ ops' = Started([kind |-> "load", pc |-> "sessions", user |-> u,
                        model |-> currentModel, rows |-> <<>>, formatted |-> <<>>])
    /\ last' = Quiet
    /\ UNCHANGED <<mode, currentModel, chatHistory, currentSession, isProcessing,
                   totalCost, storeVars, nextId, remoteCalls, dbLog>>

\* (a fetchChatHistory that, with no user, clears the list only)
LogoutKeepsSession ==
    /\ user # NoUser
    /\ user' = NoUser
    /\ SetChatHistory(<<>>)
    /\ last' = [op |-> "logout"]
    /\ UNCHANGED <<mode, currentModel, currentSession, isProcessing, storeVars, nextId,
                   ops, remoteCalls, dbLog>>

\* logout; the [user] effect runs fetchChatHistory with no user
Logout ==
    /\ user # NoUser
    /\ user' = NoUser
    /\ SetChatHistory(<<>>)
    /\ currentSession' = NoSession
    /\ last' = [op |-> "logout"]
    /\ UNCHANGED <<mode, currentModel, isProcessing, storeVars, nextId, ops,
                   remoteCalls, dbLog>>

\* createNewSession up to its await: the guard, the new object, the insert issued
\* (via and only record who called it, for observation)
CreateOp(u, model, id, via, only) ==
    [kind |-> "create", user |-> u, newSession |-> NewSession(id, model),
     via |-> via, only |-> only]

\* fetchChatHistory: the sessions query returns
LoadSessions(r, ok) ==
    /\ r.kind = "load" /\ r.pc = "sessions"
    /\ IF ~ok
       THEN /\ ops' = Ended(r)
            /\ last' = [op |-> "load", user |-> r.user, result |-> "fetchError"]
            /\ UNCHANGED <<chatHistory, totalCost, currentSession, nextId>>
       ELSE LET rows == SelectSessions(r.user) IN
            IF rows # <<>>
            THEN /\ ops' = Moved(r, [r EXCEPT !.pc = "messages", !.rows = rows])
                 /\ last' = Quiet
                 /\ UNCHANGED <<chatHistory, totalCost, currentSession, nextId>>
            ELSE /\ nextId <= MaxIds
                 /\ SetChatHistory(<<>>)
                 /\ ops' = Moved(r, CreateOp(r.user, r.model, nextId, "load", FALSE))
                 /\ nextId' = nextId + 1
                 /\ last' = Quiet
                 /\ UNCHANGED currentSession
    /\ UNCHANGED <<mode, user, currentModel, isProcessing, storeVars, remoteCalls, dbLog>>

\* fetchChatHistory: the messages query of the next session returns
LoadMessages(r, ok) ==
    /\ r.kind = "load" /\ r.pc = "messages"
    /\ LET row == Head(r.rows)
           rest == Tail(r.rows)
           formatted == IF ok
                        THEN Append(r.formatted, FormatSession(row, SelectMessages(row.id)))
                        ELSE r.formatted
       IN IF rest # <<>>
          THEN /\ ops' = Moved(r, [r EXCEPT !.rows = rest, !.formatted = formatted])
               /\ last' = Quiet
               /\ UNCHANGED <<chatHistory, totalCost, currentSession, nextId>>
          ELSE IF formatted # <<>>
          THEN /\ SetChatHistory(formatted)
               /\ currentSession' = formatted[1]
               /\ ops' = Ended(r)
               /\ last' = [op |-> "load", user |-> r.user, result |-> "loaded"]
               /\ UNCHANGED nextId
          ELSE /\ nextId <= MaxIds
               /\ SetChatHistory(formatted)
               /\ ops' = Moved(r, CreateOp(r.user, r.model, nextId, "load", FALSE))
               /\ nextId' = nextId + 1
               /\ last' = Quiet
               /\ UNCHANGED currentSession
    /\ UNCHANGED <<mode, user, currentModel, isProcessing, storeVars, remoteCalls, dbLog>>

\* createNewSession invoked from the UI
createNewSession ==
    /\ user # NoUser
    /\ CanStart
    /\ nextId <= MaxIds
    /\ ops' = Started(CreateOp(user, currentModel, nextId, "ui", FALSE))
    /\ nextId' = nextId + 1
    /\ last' = [op |-> "createNewSession", id |-> nextId]
    /\ UNCHANGED <<mode, reactVars, storeVars, remoteCalls, dbLog>>

\* (a createNewSession that shows the session although its insert has failed)
CreateFailedShown(r) ==
    /\ SetChatHistory(<<r.newSession>> \o chatHistory)
    /\ currentSession' = r.newSession
    /\ UNCHANGED dbSessions

\* createNewSession: the insert has failed; the handler reports it and returns
CreateFailed(r) == UNCHANGED <<dbSessions, chatHistory, totalCost, currentSession>>

\* createNewSession: the insert into chat_sessions returns
CreateFinish(r, ok) ==
    /\ r.kind = "create"
    /\ LET s == r.newSession IN
       IF ok
       THEN /\ dbSessions' = <<NewSessionRow(s.id, r.user, s.model)>> \o dbSessions
            /\ SetChatHistory(<<s>> \o chatHistory)
            /\ currentSession' = s
       ELSE CreateFailed(r)
    /\ ops' = Ended(r)
    /\ last' = [op |-> "created", id |-> r.newSession.id, via |-> r.via,
                only |-> r.only, ok |-> ok]
    /\ UNCHANGED <<mode, user, currentModel, isProcessing, dbMessages, nextId,
                   remoteCalls, dbLog>>

InList(id) == \E k \in 1..Len(chatHistory) : chatHistory[k].id = id

\* (a selectSession that leaves the active model alone)
selectSessionKeepsModel(sessionId) ==
    /\ currentSession' = Find(chatHistory, LAMBDA s : s.id = sessionId, currentSession)
    /\ last' = [op |-> "select", id |-> sessionId, found |-> InList(sessionId),
                toast |-> "none"]
    /\ UNCHANGED <<mode, user, currentModel, chatHistory, isProcessing, totalCost,
                   storeVars, nextId, ops, remoteCalls, dbLog>>

\* selectSession(sessionId)
selectSession(sessionId) ==
    /\ LET session == Find(chatHistory, LAMBDA s : s.id = sessionId, NoSession) IN
       IF session # NoSession
       THEN /\ currentSession' = session
            /\ currentModel' = session.model
       ELSE UNCHANGED <<currentSession, currentModel>>
    /\ last' = [op |-> "select", id |-> sessionId, found |-> InList(sessionId),
                toast |-> "none"]
    /\ UNCHANGED <<mode, user, chatHistory, isProcessing, totalCost, storeVars, nextId,
                   ops, remoteCalls, dbLog>>

\* the model selector of ChatInput
setCurrentModel(m) ==
    /\ currentModel # m
    /\ currentModel' = m
    /\ last' = Quiet
    /\ UNCHANGED <<mode, user, chatHistory, currentSession, isProcessing, totalCost,
                   storeVars, nextId, ops, remoteCalls, dbLog>>

\* deleteSession(sessionId) up to its await: the delete is issued.  What the
\* continuation reads of its render (currentSession, chatHistory) is captured here;
\* only records that the session was the only one of the list (observation).
deleteSession(sessionId) ==
    /\ user # NoUser
    /\ CanStart
    /\ ops' = Started([kind |-> "delete", id |-> sessionId, user |-> user,
                  model |-> currentModel,
                  wasCurrent |-> (currentSession.id = sessionId),
                  others |-> (Len(chatHistory) > 1),
                  next |-> Find(chatHistory, LAMBDA s : s.id # sessionId, NoSession),
                  only |-> (Len(chatHistory) = 1 /\ chatHistory[1].id = sessionId)])
    /\ last' = Quiet
    /\ UNCHANGED <<mode, reactVars, storeVars, nextId, remoteCalls, dbLog>>

\* (a deleteSession that removes the session from the list before it looks at the
\* error)
DeleteFailedRemoved(r) ==
    /\ ops' = Ended(r)
    /\ last' = [op |-> "deleted", id |-> r.id, ok |-> FALSE, only |-> r.only,
                outcome |-> "error"]
    /\ SetChatHistory(SelectSeq(chatHistory, LAMBDA s : s.id # r.id))
    /\ UNCHANGED <<user, currentModel, currentSession, isProcessing, storeVars, nextId>>

\* deleteSession: the delete has failed; the handler reports it and returns
DeleteFailed(r) ==
    /\ ops' = Ended(r)
    /\ last' = [op |-> "deleted", id |-> r.id, ok |-> FALSE, only |-> r.only,
                outcome |-> "error"]
    /\ UNCHANGED <<reactVars, storeVars, nextId>>

\* deleteSession: the delete returns
DeleteFinish(r, ok) ==
    /\ r.kind = "delete"
    /\ LET sid == r.id
           ev(outcome) == [op |-> "deleted", id |-> sid, ok |-> ok, only |-> r.only,
                           outcome |-> outcome]
       IN IF ~ok
          THEN DeleteFailed(r)
          ELSE /\ DeleteRows(sid)
               /\ SetChatHistory(FilterSeq(chatHistory, LAMBDA s : s.id # sid))
               /\ IF r.wasCurrent /\ r.others
                  THEN /\ currentSession' = r.next
                       /\ ops' = Ended(r)
                       /\ last' = ev("next")
                       /\ UNCHANGED nextId
                  ELSE IF r.wasCurrent
                  THEN /\ nextId <= MaxIds
                       /\ ops' = Moved(r, CreateOp(r.user, r.model, nextId, "delete", r.only))
                       /\ nextId' = nextId + 1
                       /\ last' = Quiet
                       /\ UNCHANGED currentSession
                  ELSE /\ ops' = Ended(r)
                       /\ last' = ev("other")
                       /\ UNCHANGED <<currentSession, nextId>>
               /\ UNCHANGED <<user, currentModel, isProcessing>>
    /\ UNCHANGED <<mode, remoteCalls, dbLog>>

-----------------------------------------------------------------------------
(* Text.  A string is a sequence of atoms: single characters, or a literal of the
   source kept whole, whose length AtomLen gives. *)

ErrConnect == <<"Error: Failed to connect to AI service. Please try again later.">>
ErrInvalid == <<"Error: Received invalid response from AI service">>
NoResponse == <<"No response from AI service">>
GeminiError == <<"Error: Gemini API returned status 500. Please try again later.">>
StreamErrorPrefix == <<"\n", "\n", "Error: ">>
Ellipsis == <<"...">>

AtomLen(a) ==
    CASE a = "..." -> 3
      [] a = "New Chat" -> 8
      [] a = "Error: " -> 7
      [] a = "As an OpenAI model, I can help you with that. Here's what I think..." -> 68
      [] a = "Based on my training data, I would suggest considering..." -> 57
      [] a = "Gemini here! I've processed your request and found that..." -> 58
      [] a = "From my Gemini knowledge base, I can tell you that..." -> 53
      [] OTHER -> 1

\* String.prototype.length
JsLength(s) == SumSeq([k \in 1..Len(s) |-> AtomLen(s[k])])

IsSpace(a) == a \in {" ", "\n"}

RECURSIVE TrimStart(_)
TrimStart(s) == IF s # <<>> /\ IsSpace(Head(s)) THEN TrimStart(Tail(s)) ELSE s

RECURSIVE TrimEnd(_)
TrimEnd(s) ==
    IF s # <<>> /\ IsSpace(s[Len(s)]) THEN TrimEnd(SubSeq(s, 1, Len(s) - 1)) ELSE s

\* (a trim that strips nothing)
TrimNothing(s) == s

\* String.prototype.trim
Trim(s) == TrimEnd(TrimStart(s))

\* content.slice(0, n)
Slice(s, n) == SubSeq(s, 1, IF Len(s) < n THEN Len(s) ELSE n)

\* an atom of the text marks an error for the reader
IsErrorAtom(a) ==
    a \in {"Error: ", ErrConnect[1], ErrInvalid[1], GeminiError[1]}

HasErrorIndicator(s) == \E k \in 1..Len(s) : IsErrorAtom(s[k])

-----------------------------------------------------------------------------
(* Usage estimator (ChatContext.tsx) *)

CeilDiv(a, b) == (a + b - 1) \div b

Max(a, b) == IF a > b THEN a ELSE b

Rate(model) == IF model = "openai" THEN RateOpenai ELSE RateGemini

\* (an estimator without the floor)
calculateUsageNoFloor(message, model) ==
    LET tokens == CeilDiv(JsLength(message), 2)
    IN [tokens |-> tokens, cost |-> tokens * Rate(model)]

calculateMockUsage(message, model) ==
    LET tokens == Max(MinTokens, CeilDiv(JsLength(message), 2))
    IN [tokens |-> tokens, cost |-> tokens * Rate(model)]

\* getMockResponse draws one of the canned answers of the model (two of the five kept)
MockResponses(model) ==
    IF model = "openai"
    THEN {<<"As an OpenAI model, I can help you with that. Here's what I think...">>,
          <<"Based on my training data, I would suggest considering...">>}
    ELSE {<<"Gemini here! I've processed your request and found that...">>,
          <<"From my Gemini knowledge base, I can tell you that...">>}

-----------------------------------------------------------------------------
(* Message exchange pipeline: sendMessage *)

MaxSends == 2

\* every exchange draws two fresh ids; the session of the initial state has id 1
LastSendId == 1 + 2 * MaxSends

\* what the caller types
Contents == {<<>>, <<" ">>, <<"h", "i">>}

\* what supabase.functions.invoke resolves to
InvokeOutcomes ==
    {[kind |-> "error", content |-> <<>>, tokens |-> Undef, cost |-> Undef],
     [kind |-> "invalid", content |-> <<>>, tokens |-> Undef, cost |-> Undef],
     [kind |-> "data", content |-> <<"o", "k">>, tokens |-> 3, cost |-> 1],
     [kind |-> "data", content |-> GeminiError, tokens |-> Undef, cost |-> Undef]}

NoSet == [id |-> -1]

\* the fields of a parsed data payload that the handler reads
NoData == [model |-> <<>>, content |-> <<>>, tokens |-> Undef, cost |-> Undef, error |-> <<>>]

IsStream == mode \in {"stream", "streamHandler"}

UserMessage(id, content, model) ==
    [id |-> id, content |-> content, sender |-> "user", model |-> model,
     tokens |-> Undef, cost |-> Undef, obj |-> 0]

\* the assistant message object a pipeline creates empty and fills in place;
\* obj names the object, for the references to it that the sessions hold
AiMessage(id, model) ==
    [id |-> id, content |-> <<>>, sender |-> "ai", model |-> model,
     tokens |-> Undef, cost |-> Undef, obj |-> id]

MessageRow(m, sid, model) ==
    [id |-> m.id, session_id |-> sid, content |-> m.content, sender |-> m.sender,
     model |-> model, tokens |-> m.tokens, cost |-> m.cost]

SessionExists(sid) == \E k \in 1..Len(dbSessions) : dbSessions[k].id = sid

\* update chat_sessions set title = ... where id = sid
UpdateTitleRow(sid, title) ==
    [k \in 1..Len(dbSessions) |->
        IF dbSessions[k].id = sid THEN [dbSessions[k] EXCEPT !.title = title]
        ELSE dbSessions[k]]

\* update chat_sessions set ..., updated_at = now where id = sid: the row becomes
\* the most recently updated one
TouchRow(sid, Change(_)) ==
    IF SessionExists(sid)
    THEN <<Change(Find(dbSessions, LAMBDA x : x.id = sid, NoSession))>>
         \o FilterSeq(dbSessions, LAMBDA x : x.id # sid)
    ELSE dbSessions

\* an in-place change of the assistant message object obj, seen through every
\* reference to it
RwMsg(obj, v, m) == IF m.obj = obj /\ obj # 0 THEN v ELSE m

RwSession(obj, v, s) ==
    IF s = NoSession THEN s
    ELSE [s EXCEPT !.messages = [k \in 1..Len(s.messages) |-> RwMsg(obj, v, s.messages[k])]]

RwOp(obj, v, r) ==
    CASE r.kind = "send" ->
            [r EXCEPT !.cs = RwSession(obj, v, r.cs),
                      !.updated = RwSession(obj, v, r.updated),
                      !.swa = RwSession(obj, v, r.swa)]
      [] r.kind = "delete" -> [r EXCEPT !.next = RwSession(obj, v, r.next)]
      [] OTHER -> r

RECURSIVE SumCopies(_, _)
SumCopies(S, B) ==
    IF S = {} THEN 0
    ELSE LET x == CHOOSE y \in S : TRUE IN CopiesIn(x, B) + SumCopies(S \ {x}, B)

MapBag(B, F(_)) ==
    LET S == BagToSet(B)
        T == {F(x) : x \in S}
    IN [y \in T |-> SumCopies({x \in S : F(x) = y}, B)]

\* prev.map(session => session.id === id ? final : session)
ReplaceById(history, id, final) ==
    [k \in 1..Len(history) |-> IF history[k].id = id THEN final ELSE history[k]]

\* (a handler that returns without its finally block)
FinallySkipped == UNCHANGED isProcessing

\* finally { setIsProcessing(false) }
Finally == isProcessing' = FALSE

\* One step of the exchange r.  v is the assistant message object after the step's
\* in-place changes, r2 the handler's next stage (NoSet when it has returned), cur the
\* argument of the step's last setCurrentSession and final the session its
\* setChatHistory puts in the list (NoSet when not called).  When the handler
\* returns nothing changes the object any more and its references become values.
Commit(r, r2, v, cur, final) ==
    LET ended == r2 = NoSet
        val == IF ended THEN [v EXCEPT !.obj = 0] ELSE v
        R(s) == RwSession(r.aiId, val, s)
        rest == MapBag(Ended(r), LAMBDA x : RwOp(r.aiId, val, x))
    IN /\ currentSession' = R(IF cur = NoSet THEN currentSession ELSE cur)
       /\ chatHistory' =
            LET h == IF final = NoSet THEN chatHistory
                     ELSE ReplaceById(chatHistory, r.cs.id, final)
            IN [k \in 1..Len(h) |-> R(h[k])]
       /\ totalCost' = IF final = NoSet THEN totalCost ELSE CalcTotalCost(chatHistory')
       /\ ops' = IF ended THEN rest
                 ELSE rest (+) SetToBag({RwOp(r.aiId, val, [r2 EXCEPT !.ai = val])})
       /\ IF ended THEN Finally ELSE UNCHANGED isProcessing

\* what a step of the exchange r did, with the assistant message object as it is,
\* the typed events decoded so far and the events the server wrote
Ev(r, at) ==
    [op |-> "exchange", ex |-> r.userId, at |-> at, msg |-> [r.ai EXCEPT !.obj = 0],
     rx |-> r.rx, sent |-> r.sent]

\* the guard of sendMessage: the providers that hold the pipeline themselves (mock,
\* stream) check isProcessing; useMessageHandler (invoke, streamHandler) does not
\* receive it
SendGuard(content) ==
    /\ currentSession # NoSession
    /\ Trim(content) # <<>>
    /\ user # NoUser
    /\ mode \in {"mock", "stream"} => ~isProcessing

\* sendMessage(content) up to its first await
sendMessage(content) ==
    /\ SendGuard(content) => CanStart /\ nextId + 1 <= LastSendId
    /\ IF SendGuard(content)
       THEN /\ isProcessing' = TRUE
            /\ ops' = Started([kind |-> "send", pc |-> "insUser", content |-> content,
                               user |-> user, model |-> currentModel,
                               cs |-> currentSession, userId |-> nextId,
                               aiId |-> nextId + 1, updated |-> NoSession,
                               swa |-> NoSession, ai |-> AiMessage(0, currentModel),
                               newTitle |-> <<>>, isFirst |-> FALSE,
                               stream |-> <<>>, rest |-> <<>>, rx |-> <<>>,
                               sent |-> <<>>, data |-> NoData])
            /\ nextId' = nextId + 2
            /\ last' = [op |-> "sendMessage", accepted |-> TRUE, content |-> content,
                        busy |-> isProcessing, ex |-> nextId, toast |-> "none"]
       ELSE /\ last' = [op |-> "sendMessage", accepted |-> FALSE, content |-> content,
                        busy |-> isProcessing, ex |-> 0, toast |-> "none"]
            /\ UNCHANGED <<isProcessing, ops, nextId>>
    /\ UNCHANGED <<mode, user, currentModel, chatHistory, currentSession, totalCost,
                   storeVars, remoteCalls, dbLog>>

\* messagesForAPI
ApiMessages(msgs) ==
    [k \in 1..Len(msgs) |->
        [sender |-> msgs[k].sender, content |-> msgs[k].content, model |-> msgs[k].model]]

\* The block after the title update, up to the await of the remote call.
\* useMessageHandler (blocking): the empty assistant message is attached first and
\* is part of messagesForAPI; streaming: the request is sent before it exists.
WithPlaceholder(r) ==
    [r EXCEPT !.pc = "invoke", !.ai = AiMessage(r.aiId, r.model),
              !.swa = [r.updated EXCEPT
                         !.messages = Append(r.updated.messages, AiMessage(r.aiId, r.model))]]

IssueRemote(r) == IF mode = "invoke" THEN WithPlaceholder(r) ELSE [r EXCEPT !.pc = "fetch"]

RemoteRequest(r) ==
    [ex |-> r.userId,
     messages |-> ApiMessages(IF mode = "invoke" THEN WithPlaceholder(r).swa.messages
                              ELSE r.updated.messages),
     user_id |-> r.user, session_id |-> r.cs.id]

\* useMessageHandler (blocking) calls the edge function for gemini only; for any
\* other model the handler returns with the placeholder in place
Unhandled(r) == mode = "invoke" /\ r.model # "gemini"

\* the step that reaches the remote call: cur0 is what setCurrentSession was last
\* given earlier in the step
RemoteStep(r, r1, cur0) ==
    IF Unhandled(r1)
    THEN /\ Commit(r, NoSet, WithPlaceholder(r1).ai, WithPlaceholder(r1).swa, NoSet)
         /\ UNCHANGED remoteCalls
    ELSE /\ Commit(r, IssueRemote(r1), IssueRemote(r1).ai,
                   IF mode = "invoke" THEN IssueRemote(r1).swa ELSE cur0, NoSet)
         /\ remoteCalls' = remoteCalls \cup {RemoteRequest(r1)}

\* (a handler that shows the user message although its insert has failed)
UserInsertFailedShown(r) ==
    /\ isProcessing' = FALSE
    /\ ops' = Ended(r)
    /\ last' = Ev(r, "userInsertFailed")
    /\ currentSession' = [r.cs EXCEPT !.messages =
                             Append(@, UserMessage(r.userId, r.content, r.model))]
    /\ UNCHANGED <<dbMessages, chatHistory, totalCost, remoteCalls>>

\* sendMessage: the insert of the user message has failed; the handler reports it
\* and returns
UserInsertFailed(r) ==
    /\ isProcessing' = FALSE
    /\ ops' = Ended(r)
    /\ last' = Ev(r, "userInsertFailed")
    /\ UNCHANGED <<dbMessages, currentSession, chatHistory, totalCost, remoteCalls>>

\* sendMessage: the insert of the user message returns
InsertUserReturn(r, ok) ==
    /\ r.kind = "send" /\ r.pc = "insUser"
    /\ ok => SessionExists(r.cs.id)
    /\ dbLog' = dbLog (+) SetToBag({[op |-> "insertMessage", ex |-> r.userId, id |-> r.userId, sender |-> "user",
                               session |-> r.cs.id, ok |-> ok, tokens |-> Undef]})
    /\ IF ~ok
       THEN UserInsertFailed(r)
       ELSE LET userMessage == UserMessage(r.userId, r.content, r.model)
                isFirst == Len(r.cs.messages) = 0
                r1 == [r EXCEPT !.updated = [r.cs EXCEPT
                                               !.messages = Append(r.cs.messages, userMessage),
                                               !.model = r.model],
                                !.isFirst = isFirst,
                                !.newTitle = IF isFirst
                                             THEN Slice(r.content, TitleLen) \o Ellipsis
                                             ELSE r.cs.title]
            IN /\ dbMessages' = Append(dbMessages, MessageRow(userMessage, r.cs.id, r.model))
               /\ IF mode = "mock"
                  THEN /\ Commit(r, [r1 EXCEPT !.pc = "think"], r.ai, r1.updated, NoSet)
                       /\ last' = Ev(r, "userMessageAppended")
                       /\ UNCHANGED remoteCalls
                  ELSE IF isFirst
                  THEN /\ Commit(r, [r1 EXCEPT !.pc = "title"], r.ai, r1.updated, NoSet)
                       /\ last' = Ev(r, "userMessageAppended")
                       /\ UNCHANGED remoteCalls
                  ELSE /\ RemoteStep(r, r1, r1.updated)
                       /\ last' = Ev(r, IF Unhandled(r1) THEN "noHandler" ELSE "remoteIssued")
    /\ UNCHANGED <<mode, user, currentModel, dbSessions, nextId>>

\* sendMessage: the update of the title returns (first message of the session)
TitleReturn(r, ok) ==
    /\ r.kind = "send" /\ r.pc = "title"
    /\ dbSessions' = IF ok THEN UpdateTitleRow(r.cs.id, r.newTitle) ELSE dbSessions
    /\ dbLog' = dbLog (+) SetToBag({[op |-> "updateTitle", ex |-> r.userId, id |-> r.cs.id, sender |-> "none",
                               session |-> r.cs.id, ok |-> ok, tokens |-> Undef]})
    /\ RemoteStep(r, r, NoSet)
    /\ last' = Ev(r, IF Unhandled(r) THEN "noHandler" ELSE "remoteIssued")
    /\ UNCHANGED <<mode, user, currentModel, dbMessages, nextId>>

\* useMessageHandler (blocking): supabase.functions.invoke returns
InvokeReturn(r, outcome) ==
    /\ r.kind = "send" /\ r.pc = "invoke"
    /\ LET aiMessage ==
               CASE outcome.kind = "error" -> [r.ai EXCEPT !.content = ErrConnect]
                 [] outcome.kind = "invalid" -> [r.ai EXCEPT !.content = ErrInvalid]
                 [] OTHER -> [r.ai EXCEPT !.content = IF outcome.content = <<>>
                                                      THEN NoResponse
                                                      ELSE outcome.content,
                                          !.tokens = outcome.tokens,
                                          !.cost = outcome.cost]
           r1 == [r EXCEPT !.ai = aiMessage]
       IN IF outcome.kind = "error"
          THEN /\ Commit(r, NoSet, aiMessage, r.swa, NoSet)
               /\ last' = Ev(r1, "invokeError")
          ELSE IF outcome.kind = "invalid"
          THEN /\ Commit(r, NoSet, aiMessage, r.swa, NoSet)
               /\ last' = Ev(r1, "invalidResponse")
          ELSE /\ Commit(r, [r EXCEPT !.pc = "insAi"], aiMessage, NoSet, NoSet)
               /\ last' = Ev(r1, "response")
    /\ UNCHANGED <<mode, user, currentModel, storeVars, nextId, remoteCalls, dbLog>>

\* useMessageHandler (blocking): the insert of the assistant message returns
InsertAiReturn(r, ok) ==
    /\ mode = "invoke"
    /\ r.kind = "send" /\ r.pc = "insAi"
    /\ ok => SessionExists(r.cs.id)
    /\ dbLog' = dbLog (+) SetToBag({[op |-> "insertMessage", ex |-> r.userId, id |-> r.aiId, sender |-> "ai",
                               session |-> r.cs.id, ok |-> ok, tokens |-> r.ai.tokens]})
    /\ dbMessages' = IF ok THEN Append(dbMessages, MessageRow(r.ai, r.cs.id, r.model))
                     ELSE dbMessages
    /\ LET finalSession == [r.swa EXCEPT !.title = r.newTitle]
       IN Commit(r, NoSet, r.ai, finalSession, finalSession)
    /\ last' = Ev(r, "finalized")
    /\ UNCHANGED <<mode, user, currentModel, dbSessions, nextId, remoteCalls>>

\* ChatContext.tsx (mock): the thinking delay elapses; the answer and its usage
MockThinkReturn(r, aiResponseContent) ==
    /\ r.kind = "send" /\ r.pc = "think"
    /\ LET aiUsage == calculateMockUsage(aiResponseContent, r.model)
           aiMessage == [id |-> r.aiId, content |-> aiResponseContent, sender |-> "ai",
                         model |-> r.model, tokens |-> aiUsage.tokens,
                         cost |-> aiUsage.cost, obj |-> 0]
       IN /\ Commit(r, [r EXCEPT !.pc = "insAi"], aiMessage, NoSet, NoSet)
          /\ last' = Ev([r EXCEPT !.ai = aiMessage], "response")
    /\ UNCHANGED <<mode, user, currentModel, storeVars, nextId, remoteCalls, dbLog>>

\* ChatContext.tsx (mock): the insert of the assistant message returns
MockInsertAiReturn(r, ok) ==
    /\ mode = "mock"
    /\ r.kind = "send" /\ r.pc = "insAi"
    /\ ok => SessionExists(r.cs.id)
    /\ dbLog' = dbLog (+) SetToBag({[op |-> "insertMessage", ex |-> r.userId, id |-> r.aiId, sender |-> "ai",
                               session |-> r.cs.id, ok |-> ok, tokens |-> r.ai.tokens]})
    /\ IF ok
       THEN /\ dbMessages' = Append(dbMessages, MessageRow(r.ai, r.cs.id, r.model))
            /\ Commit(r, [r EXCEPT !.pc = "updSess"], r.ai, NoSet, NoSet)
            /\ last' = Ev(r, "aiInserted")
       ELSE /\ Commit(r, NoSet, r.ai, NoSet, NoSet)
            /\ last' = Ev(r, "aiInsertFailed")
            /\ UNCHANGED dbMessages
    /\ UNCHANGED <<mode, user, currentModel, dbSessions, nextId, remoteCalls>>

\* ChatContext.tsx (mock): the update of the session aggregates returns
MockUpdateSessionReturn(r, ok) ==
    /\ r.kind = "send" /\ r.pc = "updSess"
    /\ LET userUsage == calculateMockUsage(r.content, r.model)
           totalTokens == userUsage.tokens + r.ai.tokens
           totalMessageCost == userUsage.cost + r.ai.cost
           finalSession == [r.updated EXCEPT
                              !.messages = Append(r.updated.messages, r.ai),
                              !.totalTokens = r.cs.totalTokens + totalTokens,
                              !.totalCost = r.cs.totalCost + totalMessageCost,
                              !.title = r.newTitle]
       IN /\ dbSessions' =
               IF ok
               THEN TouchRow(r.cs.id,
                             LAMBDA row : [row EXCEPT
                                             !.total_tokens = finalSession.totalTokens,
                                             !.total_cost = finalSession.totalCost,
                                             !.title = r.newTitle,
                                             !.model = r.model])
               ELSE dbSessions
          /\ Commit(r, NoSet, r.ai, finalSession, finalSession)
    /\ dbLog' = dbLog (+) SetToBag({[op |-> "updateSession", ex |-> r.userId, id |-> r.cs.id, sender |-> "none",
                               session |-> r.cs.id, ok |-> ok, tokens |-> Undef]})
    /\ last' = Ev(r, "finalized")
    /\ UNCHANGED <<mode, user, currentModel, dbMessages, nextId, remoteCalls>>

-----------------------------------------------------------------------------
(* The event stream of the streaming edge function, as bytes on the wire.  An atom
   is a run of bytes that a network read may end after. *)

GeminiModel == <<"gemini-1.5-pro">>

\* a typed event: text is the model of start and done, the content of chunk and
\* the error of error
Event(type, text, tokens, cost) ==
    [type |-> type, text |-> text, tokens |-> tokens, cost |-> cost]

Digits == <<"0", "1", "2", "3", "4", "5", "6", "7", "8", "9">>

\* the decimal digits of a number, as JSON.stringify writes them
RECURSIVE NumStr(_)
NumStr(n) == IF n < 10 THEN <<Digits[n + 1]>> ELSE NumStr(n \div 10) \o <<Digits[(n % 10) + 1]>>

DigitVal(a) == (CHOOSE d \in 1..10 : Digits[d] = a) - 1

\* the number that JSON.parse reads from decimal digits
RECURSIVE ParseNum(_)
ParseNum(s) ==
    IF s = <<>> THEN 0 ELSE ParseNum(SubSeq(s, 1, Len(s) - 1)) * 10 + DigitVal(s[Len(s)])

\* JSON.stringify of the data of an event
JsonStringify(e) ==
    CASE e.type = "chunk" -> <<"{", "content:">> \o e.text \o <<"}">>
      [] e.type = "error" -> <<"{", "error:">> \o e.text \o <<"}">>
      [] e.type = "done" -> <<"{", "model:">> \o e.text \o <<",", "tokens:">> \o NumStr(e.tokens)
                             \o <<",", "cost:">> \o NumStr(e.cost) \o <<"}">>
      [] OTHER -> <<"{", "model:">> \o e.text \o <<"}">>

\* writer.write(encoder.encode(`event: ${type}\ndata: ${JSON.stringify(data)}\n\n`))
EncodeEvent(e) == <<"event: ", e.type, "\n", "data: ">> \o JsonStringify(e) \o <<"\n", "\n">>

RECURSIVE EncodeStream(_)
EncodeStream(events) ==
    IF events = <<>> THEN <<>> ELSE EncodeEvent(Head(events)) \o EncodeStream(Tail(events))

\* String.prototype.split(sep) for a separator of n newlines: cur is the part being
\* collected
RECURSIVE SplitOn(_, _, _)
SplitOn(s, n, cur) ==
    IF s = <<>> THEN <<cur>>
    ELSE IF Len(s) >= n /\ \A k \in 1..n : s[k] = "\n"
    THEN <<cur>> \o SplitOn(SubSeq(s, n + 1, Len(s)), n, <<>>)
    ELSE SplitOn(Tail(s), n, Append(cur, Head(s)))

\* chunk.split('\n\n')
SplitBlocks(chunk) == SplitOn(chunk, 2, <<>>)

NoMatch == <<"\n">>

\* line.match(/^prefix(.+)$/m), then [1].trim(): the first line of the piece that
\* starts with the prefix and goes on
MatchLine(piece, prefix) ==
    LET lines == SplitOn(piece, 1, <<>>)
        hit == Find(lines, LAMBDA l : Len(l) >= 2 /\ l[1] = prefix, NoMatch)
    IN IF hit = NoMatch THEN NoMatch ELSE Trim(Tail(hit))

\* JSON.parse accepts a whole object only
JsonValid(s) == Len(s) >= 2 /\ s[1] = "{" /\ s[Len(s)] = "}"

IndexOf(s, a) == IF \E k \in 1..Len(s) : s[k] = a
                 THEN CHOOSE k \in 1..Len(s) : s[k] = a /\ \A j \in 1..(k - 1) : s[j] # a
                 ELSE 0

\* the value of a key of a parsed object: the atoms up to the next comma or brace
Field(s, key) ==
    LET i == IndexOf(s, key)
        j == CHOOSE k \in (i + 1)..Len(s) :
                /\ s[k] \in {",", "}"}
                /\ \A m \in (i + 1)..(k - 1) : s[m] \notin {",", "}"}
    IN SubSeq(s, i + 1, j - 1)

HasField(s, key) == IndexOf(s, key) # 0

\* JSON.parse of a valid payload, as the fields the handler reads; a missing string
\* prints as undefined when it is appended to text
JsonParse(s) ==
    [model |-> IF HasField(s, "model:") THEN Field(s, "model:") ELSE <<"undefined">>,
     content |-> IF HasField(s, "content:") THEN Field(s, "content:") ELSE <<"undefined">>,
     error |-> IF HasField(s, "error:") THEN Field(s, "error:") ELSE <<"undefined">>,
     tokens |-> IF HasField(s, "tokens:") THEN ParseNum(Field(s, "tokens:")) ELSE Undef,
     cost |-> IF HasField(s, "cost:") THEN ParseNum(Field(s, "cost:")) ELSE Undef]

\* the typed event that a matched piece stands for
Typed(eventType, data) ==
    Event(eventType[1],
          CASE eventType = <<"chunk">> -> data.content
            [] eventType = <<"error">> -> data.error
            [] OTHER -> data.model,
          data.tokens, data.cost)

\* what the loop body makes of one piece of a read: nothing (skip), an exception of
\* JSON.parse (throw), or a typed event
Skip == Event("skip", <<>>, Undef, Undef)

Throw == Event("throw", <<>>, Undef, Undef)

PieceEvent(line) ==
    LET eventType == MatchLine(line, "event: ")
        dataMatch == MatchLine(line, "data: ")
    IN IF Trim(line) = <<>> \/ eventType = NoMatch \/ dataMatch = NoMatch THEN Skip
       ELSE IF ~JsonValid(dataMatch) THEN Throw
       ELSE Typed(eventType, JsonParse(dataMatch))

\* the typed events the loop body gets from the pieces, up to an exception
RECURSIVE PiecesEvents(_)
PiecesEvents(pieces) ==
    IF pieces = <<>> THEN <<>>
    ELSE LET e == PieceEvent(Head(pieces))
         IN IF e = Throw THEN <<>>
            ELSE IF e = Skip THEN PiecesEvents(Tail(pieces))
            ELSE <<e>> \o PiecesEvents(Tail(pieces))

\* the typed events decoded from one read
DecodeChunk(chunk) == PiecesEvents(SplitBlocks(chunk))

\* (a handler that keeps the last chunk only)
AppendChunkOverwrite(aiMessage, data) == [aiMessage EXCEPT !.content = data.content]

\* aiMessage.content += data.content
AppendChunk(aiMessage, data) == [aiMessage EXCEPT !.content = @ \o data.content]

\* (a handler that shows the error as a toast only)
AppendErrorSilent(aiMessage, data) == aiMessage

\* aiMessage.content += `\n\nError: ${data.error}`
AppendError(aiMessage, data) ==
    [aiMessage EXCEPT !.content = @ \o StreamErrorPrefix \o data.error]

\* (a handler that adds a message for every chunk)
WithAiAppended(swa, aiId, m) == [swa EXCEPT !.messages = Append(@, m)]

\* sessionWithAiMessage.messages.map(msg => msg.id === aiMessageId ? m : msg)
WithAi(swa, aiId, m) ==
    [swa EXCEPT !.messages = [k \in 1..Len(swa.messages) |->
                                 IF swa.messages[k].id = aiId THEN m ELSE swa.messages[k]]]

\* the one element of a singleton
Only(S) == CHOOSE x \in S : TRUE

\* (a switch whose default case takes the event for a chunk)
DefaultCaseAsChunk(st, data) == [st EXCEPT !.ai = AppendChunk(st.ai, data)]

\* the switch has no default case: an event of another type changes nothing
DefaultCase(st, data) == st

\* The body of the for loop, for one piece of a read.  st holds the assistant
\* message object (ai), the last argument of setCurrentSession (cur) and the events
\* decoded (rx); the result has pc "read" to go on with the next piece, "doneIns" at
\* the insert of the done event and "throw" when JSON.parse throws.
ProcessPiece(r, st, line) ==
    LET e == PieceEvent(line)
    IN IF e = Skip THEN st
       ELSE IF e = Throw THEN [st EXCEPT !.pc = "throw"]
       ELSE LET data == JsonParse(MatchLine(line, "data: "))
                eventType == MatchLine(line, "event: ")
                st1 == [st EXCEPT !.rx = Append(@, e)]
            IN CASE eventType = <<"chunk">> ->
                      LET ai2 == AppendChunk(st.ai, data)
                      IN [st1 EXCEPT !.ai = ai2,
                                     !.cur = WithAi(r.swa, r.aiId, [ai2 EXCEPT !.obj = 0])]
                 [] eventType = <<"done">> ->
                      [st1 EXCEPT !.ai = [st.ai EXCEPT !.tokens = data.tokens,
                                                       !.cost = data.cost],
                                  !.pc = "doneIns", !.data = data]
                 [] eventType = <<"error">> ->
                      [st1 EXCEPT !.ai = AppendError(st.ai, data), !.cur = r.swa]
                 [] eventType = <<"start">> -> st1
                 [] OTHER -> DefaultCase(st1, data)

\* The for loop over the pieces of one read, up to the next await: at the done
\* event the pieces still to go are kept (rest) for after the awaits.
RECURSIVE ProcessPieces(_, _, _)
ProcessPieces(r, st, pieces) ==
    IF pieces = <<>> THEN [st EXCEPT !.pc = "read", !.rest = <<>>]
    ELSE Only({IF s.pc = "read" THEN ProcessPieces(r, s, Tail(pieces))
               ELSE [s EXCEPT !.rest = IF s.pc = "doneIns" THEN Tail(pieces) ELSE <<>>] :
               s \in {ProcessPiece(r, st, Head(pieces))}})

\* the streams that reach the client: an answer in two chunks, a Gemini error, an
\* answer whose transport closes before done, and an answer cut by an error
Streams ==
    {<<Event("start", GeminiModel, Undef, Undef), Event("chunk", <<"a">>, Undef, Undef),
       Event("chunk", <<"b">>, Undef, Undef), Event("done", GeminiModel, 12, 3)>>,
     <<Event("error", <<"e">>, Undef, Undef)>>,
     <<Event("start", GeminiModel, Undef, Undef), Event("chunk", <<"a">>, Undef, Undef)>>,
     <<Event("start", GeminiModel, Undef, Undef), Event("chunk", <<"a">>, Undef, Undef),
       Event("error", <<"e">>, Undef, Undef)>>}

\* what fetch resolves to
FetchOutcomes ==
    {[kind |-> "reject", events |-> <<>>], [kind |-> "http", events |-> <<>>]}
    \cup {[kind |-> "stream", events |-> s] : s \in Streams}

\* streaming sendMessage: fetch returns; the placeholder is attached before the
\* status is looked at
FetchReturn(r, response) ==
    /\ r.kind = "send" /\ r.pc = "fetch"
    /\ LET aiMessage == AiMessage(r.aiId, r.model)
           swa == [r.updated EXCEPT !.messages = Append(r.updated.messages, aiMessage)]
           r1 == [r EXCEPT !.ai = aiMessage, !.swa = swa, !.pc = "read",
                           !.stream = EncodeStream(response.events),
                           !.sent = response.events]
       IN IF response.kind = "reject"
          THEN /\ Commit(r, NoSet, r.ai, NoSet, NoSet)
               /\ last' = Ev(r, "fetchFailed")
          ELSE IF response.kind = "http"
          THEN /\ Commit(r, NoSet, aiMessage, swa, NoSet)
               /\ last' = Ev(r1, "httpError")
          ELSE /\ Commit(r, r1, aiMessage, swa, NoSet)
               /\ last' = Ev(r1, "streaming")
    /\ UNCHANGED <<mode, user, currentModel, storeVars, nextId, remoteCalls, dbLog>>

\* the pieces st of the exchange r, as the step they end; base is the handler
\* before the pieces, final the session given to setChatHistory in the step
AfterPieces(r, base, st, final) ==
    LET r1 == [base EXCEPT !.ai = st.ai, !.rx = st.rx, !.rest = st.rest,
                           !.data = st.data, !.pc = st.pc]
    IN IF st.pc = "throw"
       THEN /\ Commit(r, NoSet, st.ai, st.cur, final)
            /\ last' = Ev(r1, "parseError")
       ELSE /\ Commit(r, r1, st.ai, st.cur, final)
            /\ last' = Quiet

\* streaming sendMessage: reader.read() returns the next k atoms of the stream,
\* and each read is decoded and split by itself
ReadReturn(r, k) ==
    /\ r.kind = "send" /\ r.pc = "read"
    /\ k \in 1..Len(r.stream)
    /\ LET chunk == SubSeq(r.stream, 1, k)
           r0 == [r EXCEPT !.stream = SubSeq(r.stream, k + 1, Len(r.stream))]
       IN \E st \in {ProcessPieces(r, [ai |-> r.ai, cur |-> NoSet, rx |-> r.rx,
                                       pc |-> "read", rest |-> <<>>, data |-> r.data],
                                   SplitBlocks(chunk))} :
             AfterPieces(r, r0, st, NoSet)
    /\ UNCHANGED <<mode, user, currentModel, storeVars, nextId, remoteCalls, dbLog>>

\* (a handler that takes the placeholder away when the stream ends)
ReadDoneDropsPartial(r) ==
    /\ r.kind = "send" /\ r.pc = "read"
    /\ r.stream = <<>>
    /\ Commit(r, NoSet, r.ai, r.updated, NoSet)
    /\ last' = Ev(r, "streamEnd")
    /\ UNCHANGED <<mode, user, currentModel, storeVars, nextId, remoteCalls, dbLog>>

\* streaming sendMessage: reader.read() reports the end of the stream
ReadDone(r) ==
    /\ r.kind = "send" /\ r.pc = "read"
    /\ r.stream = <<>>
    /\ Commit(r, NoSet, r.ai, NoSet, NoSet)
    /\ last' = Ev(r, "streamEnd")
    /\ UNCHANGED <<mode, user, currentModel, storeVars, nextId, remoteCalls, dbLog>>

\* (a handler that applies the aggregates before it updates the session)
DoneInsertReturnApplies(r, ok) ==
    /\ r.kind = "send" /\ r.pc = "doneIns"
    /\ ok => SessionExists(r.cs.id)
    /\ dbLog' = dbLog (+) SetToBag({[op |-> "insertMessage", ex |-> r.userId, id |-> r.aiId,
                             sender |-> "ai", session |-> r.cs.id, ok |-> ok,
                             tokens |-> r.data.tokens]})
    /\ dbMessages' = IF ok
                     THEN Append(dbMessages, MessageRow(r.ai, r.cs.id, r.data.model[1]))
                     ELSE dbMessages
    /\ LET finalSession == [r.swa EXCEPT !.totalTokens = r.cs.totalTokens + r.data.tokens,
                                         !.totalCost = r.cs.totalCost + r.data.cost]
       IN Commit(r, [r EXCEPT !.pc = "doneUpd"], r.ai, finalSession, finalSession)
    /\ last' = Quiet
    /\ UNCHANGED <<mode, user, currentModel, dbSessions, nextId, remoteCalls>>

\* streaming sendMessage, case done: the insert of the assistant message returns
DoneInsertReturn(r, ok) ==
    /\ r.kind = "send" /\ r.pc = "doneIns"
    /\ ok => SessionExists(r.cs.id)
    /\ dbLog' = dbLog (+) SetToBag({[op |-> "insertMessage", ex |-> r.userId, id |-> r.aiId,
                             sender |-> "ai", session |-> r.cs.id, ok |-> ok,
                             tokens |-> r.data.tokens]})
    /\ dbMessages' = IF ok
                     THEN Append(dbMessages, MessageRow(r.ai, r.cs.id, r.data.model[1]))
                     ELSE dbMessages
    /\ Commit(r, [r EXCEPT !.pc = "doneUpd"], r.ai, NoSet, NoSet)
    /\ last' = Quiet
    /\ UNCHANGED <<mode, user, currentModel, dbSessions, nextId, remoteCalls>>

\* streaming sendMessage, case done: the update of the session aggregates returns;
\* the loop then goes on with the rest of the read
DoneUpdateReturn(r, ok) ==
    /\ r.kind = "send" /\ r.pc = "doneUpd"
    /\ LET newTotalTokens == r.cs.totalTokens + r.data.tokens
           newTotalCost == r.cs.totalCost + r.data.cost
           finalSession == [r.swa EXCEPT !.totalTokens = newTotalTokens,
                                         !.totalCost = newTotalCost,
                                         !.title = r.newTitle]
       IN /\ dbSessions' =
               IF ok
               THEN TouchRow(r.cs.id,
                             LAMBDA row : [row EXCEPT !.total_tokens = newTotalTokens,
                                                      !.total_cost = newTotalCost])
               ELSE dbSessions
          /\ \E st \in {ProcessPieces(r, [ai |-> r.ai, cur |-> finalSession, rx |-> r.rx,
                                          pc |-> "read", rest |-> <<>>, data |-> r.data],
                                      r.rest)} :
                AfterPieces(r, r, st, finalSession)
    /\ dbLog' = dbLog (+) SetToBag({[op |-> "updateSession", ex |-> r.userId, id |-> r.cs.id,
                             sender |-> "none", session |-> r.cs.id, ok |-> ok,
                             tokens |-> r.data.tokens]})
    /\ UNCHANGED <<mode, user, currentModel, dbMessages, nextId, remoteCalls>>

-----------------------------------------------------------------------------
(* The state after the provider has mounted with nobody signed in *)

Init ==
    /\ mode \in {"mock", "invoke", "stream"}
    /\ user = NoUser
    /\ currentModel = "gemini"
    /\ chatHistory = <<>>
    /\ currentSession = NoSession
    /\ isProcessing = FALSE
    /\ totalCost = 0
    /\ dbSessions = <<>>
    /\ dbMessages = <<>>
    /\ nextId = 1
    /\ ops = EmptyBag
    /\ remoteCalls = {}
    /\ dbLog = EmptyBag
    /\ last = Booted

InitStore == Init /\ mode = "invoke"

NextStore ==
    \/ \E u \in Users : Login(u)
    \/ Logout
    \/ \E r \in InFlight, ok \in BOOLEAN : LoadSessions(r, ok)
    \/ \E r \in InFlight, ok \in BOOLEAN : LoadMessages(r, ok)
    \/ createNewSession
    \/ \E r \in InFlight, ok \in BOOLEAN : CreateFinish(r, ok)
    \/ \E s \in 1..MaxIds : selectSession(s)
    \/ \E s \in 1..MaxIds : InList(s) /\ deleteSession(s)
    \/ \E r \in InFlight, ok \in BOOLEAN : DeleteFinish(r, ok)

SpecStore == InitStore /\ [][NextStore]_vars

\* The load of the [user] effect by itself: principals sign in and out
InitLoad == Init /\ mode = "invoke"

NextLoad ==
    \/ \E u \in Users : Login(u)
    \/ Logout
    \/ \E r \in InFlight, ok \in BOOLEAN : LoadSessions(r, ok)
    \/ \E r \in InFlight, ok \in BOOLEAN : LoadMessages(r, ok)
    \/ \E r \in InFlight, ok \in BOOLEAN : CreateFinish(r, ok)

SpecLoad == InitLoad /\ [][NextLoad]_vars

\* The state a first sign-in leaves: the load found no session and created one
InitSignedIn ==
    /\ user = "u1"
    /\ currentModel \in Models
    /\ chatHistory = <<NewSession(1, currentModel)>>
    /\ currentSession = NewSession(1, currentModel)
    /\ isProcessing = FALSE
    /\ totalCost = 0
    /\ dbSessions = <<NewSessionRow(1, "u1", currentModel)>>
    /\ dbMessages = <<>>
    /\ nextId = 2
    /\ ops = EmptyBag
    /\ remoteCalls = {}
    /\ dbLog = EmptyBag
    /\ last = [op |-> "created", id |-> 1, via |-> "load", only |-> FALSE, ok |-> TRUE]

InitSessions == InitSignedIn /\ mode = "invoke"

NextSessions ==
    \/ \E m \in Models : setCurrentModel(m)
    \/ createNewSession
    \/ \E r \in InFlight, ok \in BOOLEAN : CreateFinish(r, ok)
    \/ \E s \in 1..MaxIds : selectSession(s)
    \/ \E s \in 1..MaxIds : InList(s) /\ deleteSession(s)
    \/ \E r \in InFlight, ok \in BOOLEAN : DeleteFinish(r, ok)

SpecSessions == InitSessions /\ [][NextSessions]_vars

\* The blocking pipeline of useMessageHandler, with the session operations around it
InitInvoke == InitSignedIn /\ mode = "invoke"

NextInvoke ==
    \/ \E c \in Contents : sendMessage(c)
    \/ \E r \in InFlight, ok \in BOOLEAN : InsertUserReturn(r, ok)
    \/ \E r \in InFlight, ok \in BOOLEAN : TitleReturn(r, ok)
    \/ \E r \in InFlight, o \in InvokeOutcomes : InvokeReturn(r, o)
    \/ \E r \in InFlight, ok \in BOOLEAN : InsertAiReturn(r, ok)
    \/ Logout

SpecInvoke == InitInvoke /\ [][NextInvoke]_vars

\* The mock pipeline of ChatContext.tsx
InitMock == InitSignedIn /\ mode = "mock"

NextMock ==
    \/ \E c \in Contents : sendMessage(c)
    \/ \E r \in InFlight, ok \in BOOLEAN : InsertUserReturn(r, ok)
    \/ \E r \in InFlight : \E a \in MockResponses(r.model) : MockThinkReturn(r, a)
    \/ \E r \in InFlight, ok \in BOOLEAN : MockInsertAiReturn(r, ok)
    \/ \E r \in InFlight, ok \in BOOLEAN : MockUpdateSessionReturn(r, ok)
    \/ Logout

SpecMock == InitMock /\ [][NextMock]_vars

\* The provider of ChatContext.tsx as a whole: sign-in and sign-out, the session
\* operations and the exchanges, which add their cost to the session
InitCost == InitSignedIn /\ mode = "mock" /\ currentModel = "openai"

NextCost ==
    \/ Login("u1")
    \/ Logout
    \/ \E r \in InFlight, ok \in BOOLEAN : LoadSessions(r, ok)
    \/ \E r \in InFlight, ok \in BOOLEAN : LoadMessages(r, ok)
    \/ createNewSession
    \/ \E r \in InFlight, ok \in BOOLEAN : CreateFinish(r, ok)
    \/ \E s \in 1..MaxIds : InList(s) /\ deleteSession(s)
    \/ \E r \in InFlight, ok \in BOOLEAN : DeleteFinish(r, ok)
    \/ sendMessage(<<"h", "i">>)
    \/ \E r \in InFlight, ok \in BOOLEAN : InsertUserReturn(r, ok)
    \/ \E r \in {x \in InFlight : x.kind = "send"} :
          \E a \in MockResponses(r.model) : MockThinkReturn(r, a)
    \/ \E r \in InFlight, ok \in BOOLEAN : MockInsertAiReturn(r, ok)
    \/ \E r \in InFlight, ok \in BOOLEAN : MockUpdateSessionReturn(r, ok)

SpecCost == InitCost /\ [][NextCost]_vars

\* The usage estimator by itself, applied to texts of up to MaxTextLen characters
\* and to the canned answers
MaxTextLen == 5

Hello == <<"H", "e", "l", "l", "o">>

RECURSIVE TextsOfLen(_)
TextsOfLen(n) ==
    IF n = 0 THEN {<<>>}
    ELSE {Append(t, c) : t \in TextsOfLen(n - 1), c \in {"a", " "}}

Texts ==
    UNION {TextsOfLen(n) : n \in 0..MaxTextLen}
        \cup {Hello} \cup MockResponses("openai") \cup MockResponses("gemini")

InitUsage == InitSignedIn /\ mode = "mock"

\* calculateMockUsage(message, model) is called
EstimateUsage(message, model) ==
    /\ last' = [op |-> "usage", message |-> message, model |-> model,
                usage |-> calculateMockUsage(message, model)]
    /\ UNCHANGED <<mode, reactVars, storeVars, nextId, ops, remoteCalls, dbLog>>

NextUsage == \E message \in Texts, model \in Models : EstimateUsage(message, model)

SpecUsage == InitUsage /\ [][NextUsage]_vars

\* The streaming pipeline of the provider
InitStream == InitSignedIn /\ mode = "stream" /\ currentModel = "gemini"

NextStream ==
    \/ \E c \in Contents : sendMessage(c)
    \/ \E r \in InFlight, ok \in BOOLEAN : InsertUserReturn(r, ok)
    \/ \E r \in InFlight, ok \in BOOLEAN : TitleReturn(r, ok)
    \/ \E r \in InFlight, o \in FetchOutcomes : FetchReturn(r, o)
    \/ \E r \in InFlight : \E k \in 1..Len(r.stream) : ReadReturn(r, k)
    \/ \E r \in InFlight : ReadDone(r)
    \/ \E r \in InFlight, ok \in BOOLEAN : DoneInsertReturn(r, ok)
    \/ \E r \in InFlight, ok \in BOOLEAN : DoneUpdateReturn(r, ok)

SpecStream == InitStream /\ [][NextStream]_vars

\* The streaming pipeline of the provider, reading from any server: one that also
\* writes events of a type the client does not know, and one that goes on writing
\* after done
StreamsWithOther ==
    {<<Event("start", GeminiModel, Undef, Undef), Event("chunk", <<"a">>, Undef, Undef),
       Event("ping", <<>>, Undef, Undef), Event("done", GeminiModel, 12, 3)>>,
     <<Event("chunk", <<"a">>, Undef, Undef), Event("done", GeminiModel, 12, 3),
       Event("chunk", <<"b">>, Undef, Undef)>>}

InitDecoder == InitStream

NextDecoder ==
    \/ \E c \in Contents : sendMessage(c)
    \/ \E r \in InFlight, ok \in BOOLEAN : InsertUserReturn(r, ok)
    \/ \E r \in InFlight, ok \in BOOLEAN : TitleReturn(r, ok)
    \/ \E r \in InFlight, s \in StreamsWithOther :
          FetchReturn(r, [kind |-> "stream", events |-> s])
    \/ \E r \in InFlight : \E k \in 1..Len(r.stream) : ReadReturn(r, k)
    \/ \E r \in InFlight : ReadDone(r)
    \/ \E r \in InFlight, ok \in BOOLEAN : DoneInsertReturn(r, ok)
    \/ \E r \in InFlight, ok \in BOOLEAN : DoneUpdateReturn(r, ok)

SpecDecoder == InitDecoder /\ [][NextDecoder]_vars

\* The streaming pipeline of useMessageHandler, which does not receive isProcessing:
\* exchanges overlap.  The answers have no text: the server writes done alone.
StreamsOfDone == {<<Event("done", GeminiModel, 12, 3)>>}

InitHandler == InitSignedIn /\ mode = "streamHandler" /\ currentModel = "gemini"

NextHandler ==
    \/ sendMessage(<<"h", "i">>)
    \/ \E r \in InFlight, ok \in BOOLEAN : InsertUserReturn(r, ok)
    \/ \E r \in InFlight, ok \in BOOLEAN : TitleReturn(r, ok)
    \/ \E r \in InFlight, s \in StreamsOfDone :
          FetchReturn(r, [kind |-> "stream", events |-> s])
    \/ \E r \in InFlight : \E k \in 1..Len(r.stream) : ReadReturn(r, k)
    \/ \E r \in InFlight : ReadDone(r)
    \/ \E r \in InFlight, ok \in BOOLEAN : DoneInsertReturn(r, ok)
    \/ \E r \in InFlight, ok \in BOOLEAN : DoneUpdateReturn(r, ok)

SpecHandler == InitHandler /\ [][NextHandler]_vars

\* The blocking pipeline of useMessageHandler together with the session operations
\* of useChatOperations: the user creates, selects and deletes sessions while
\* exchanges are in flight
InitWork == InitSignedIn /\ mode = "invoke" /\ currentModel = "gemini"

NextWork ==
    \/ createNewSession
    \/ \E r \in InFlight, ok \in BOOLEAN : CreateFinish(r, ok)
    \/ \E s \in 1..MaxIds : selectSession(s)
    \/ \E s \in 1..MaxIds : InList(s) /\ deleteSession(s)
    \/ \E r \in InFlight, ok \in BOOLEAN : DeleteFinish(r, ok)
    \/ sendMessage(<<"h", "i">>)
    \/ \E r \in InFlight, ok \in BOOLEAN : InsertUserReturn(r, ok)
    \/ \E r \in InFlight, ok \in BOOLEAN : TitleReturn(r, ok)
    \/ \E r \in InFlight, o \in InvokeOutcomes : InvokeReturn(r, o)
    \/ \E r \in InFlight, ok \in BOOLEAN : InsertAiReturn(r, ok)

SpecWork == InitWork /\ [][NextWork]_vars

\* The blocking and the streaming pipeline, every call of which returns
ExchangeIds == {2 * k : k \in 1..MaxSends}

InitLive ==
    /\ InitSignedIn
    /\ mode \in {"invoke", "stream"}
    /\ mode = "stream" => currentModel = "gemini"

\* a call of the exchange e returns
Returns(e) ==
    \E r \in InFlight :
        /\ r.kind = "send" /\ r.userId = e
        /\ \/ \E ok \in BOOLEAN : InsertUserReturn(r, ok)
           \/ \E ok \in BOOLEAN : TitleReturn(r, ok)
           \/ \E o \in InvokeOutcomes : InvokeReturn(r, o)
           \/ \E ok \in BOOLEAN : InsertAiReturn(r, ok)
           \/ \E o \in FetchOutcomes : FetchReturn(r, o)
           \/ \E k \in 1..Len(r.stream) : ReadReturn(r, k)
           \/ ReadDone(r)
           \/ \E ok \in BOOLEAN : DoneInsertReturn(r, ok)
           \/ \E ok \in BOOLEAN : DoneUpdateReturn(r, ok)

NextLive ==
    \/ \E c \in Contents : sendMessage(c)
    \/ \E e \in ExchangeIds : Returns(e)

SpecLive ==
    /\ InitLive
    /\ [][NextLive]_vars
    /\ \A e \in ExchangeIds : WF_vars(Returns(e))

-----------------------------------------------------------------------------
(* The streaming edge function: fetchAndStreamResponse.  The function's position,
   its locals and the events it has written are kept in last. *)

\* reader.read() of the Gemini response resolves at most MaxReads times with data
MaxReads == 2

\* JSON.stringify(messages).length of the requests served
RequestLengths == {2, 57}

\* the lines of the Gemini response: a candidate with text, a candidate without
\* text, the [DONE] line, a line that is no JSON, and a line without "data: "
GeminiLines ==
    {[kind |-> "text", text |-> <<"a">>],
     [kind |-> "text", text |-> <<"b", "c", "d", "e", "f">>],
     [kind |-> "empty", text |-> <<>>],
     [kind |-> "end", text |-> <<>>],
     [kind |-> "bad", text |-> <<>>],
     [kind |-> "other", text |-> <<>>]}

\* what one reader.read() delivers: one or two lines
GeminiReads ==
    {<<l>> : l \in GeminiLines} \cup {<<l, l2>> : l \in GeminiLines, l2 \in GeminiLines}

\* what the fetch of the Gemini API resolves to
GeminiResponses ==
    {[kind |-> "reject", error |-> <<"e">>],
     [kind |-> "status", error |-> <<"e">>],
     [kind |-> "nobody", error |-> <<>>],
     [kind |-> "ok", error |-> <<>>]}

Serving == last.op = "serve" /\ last.pc # "closed"

\* writer.write of one event
Written1(st, e) == [st EXCEPT !.out = Append(@, e)]

\* (a function that never clears isFirstChunk)
WriteStartEveryChunk(st) == Written1(st, Event("start", GeminiModel, Undef, Undef))

\* if (isFirstChunk) { write start; isFirstChunk = false }
WriteStart(st) ==
    [Written1(st, Event("start", GeminiModel, Undef, Undef)) EXCEPT !.isFirstChunk = FALSE]

\* the body of the loop over the lines of a read
ProcessLine(st, line) ==
    IF line.kind = "text"
    THEN LET st1 == IF st.isFirstChunk THEN WriteStart(st) ELSE st
         IN [Written1(st1, Event("chunk", line.text, Undef, Undef))
                EXCEPT !.tokensProcessed = @ + CeilDiv(JsLength(line.text), 4)]
    ELSE st

RECURSIVE ProcessLines(_, _)
ProcessLines(st, lines) ==
    IF lines = <<>> THEN st ELSE ProcessLines(ProcessLine(st, Head(lines)), Tail(lines))

\* the catch block: the error event; finally closes the writer
CatchError(st, message) ==
    [Written1(st, Event("error", message, Undef, Undef)) EXCEPT !.pc = "closed"]

\* the completion event (the cost in millionths of a dollar: 0.001 per 1K input
\* tokens, 0.002 per 1K output tokens); finally closes the writer
WriteDone(st) ==
    LET inputTokens == CeilDiv(st.length, 4)
        outputTokens == st.tokensProcessed
    IN [Written1(st, Event("done", GeminiModel, inputTokens + outputTokens,
                           inputTokens + 2 * outputTokens))
           EXCEPT !.pc = "closed"]

ServerFrame == <<mode, reactVars, storeVars, nextId, ops, remoteCalls, dbLog>>

\* serve: a request arrives and fetchAndStreamResponse calls the Gemini API
ServeRequest(length) ==
    /\ ~Serving
    /\ last' = [op |-> "serve", pc |-> "fetch", length |-> length, out |-> <<>>,
                isFirstChunk |-> TRUE, tokensProcessed |-> 0, reads |-> 0]
    /\ UNCHANGED ServerFrame

\* the fetch of the Gemini API returns
GeminiReturn(response) ==
    /\ Serving /\ last.pc = "fetch"
    /\ last' = CASE response.kind = "status" ->
                      [Written1(last, Event("error",
                                            <<"Gemini API error: ", "500", " - ">>
                                                \o response.error, Undef, Undef))
                          EXCEPT !.pc = "closed"]
                 [] response.kind = "nobody" -> CatchError(last, <<"Response body is null">>)
                 [] response.kind = "reject" -> CatchError(last, response.error)
                 [] OTHER -> [last EXCEPT !.pc = "read"]
    /\ UNCHANGED ServerFrame

\* reader.read() resolves with data
GeminiRead(lines) ==
    /\ Serving /\ last.pc = "read"
    /\ last.reads < MaxReads
    /\ last' = ProcessLines([last EXCEPT !.reads = @ + 1], lines)
    /\ UNCHANGED ServerFrame

\* reader.read() resolves with done
GeminiEnd ==
    /\ Serving /\ last.pc = "read"
    /\ last' = WriteDone(last)
    /\ UNCHANGED ServerFrame

\* reader.read() rejects
GeminiFail(message) ==
    /\ Serving /\ last.pc = "read"
    /\ last' = CatchError(last, message)
    /\ UNCHANGED ServerFrame

InitServer == InitSignedIn /\ mode = "stream" /\ currentModel = "gemini"

NextServer ==
    \/ \E length \in RequestLengths : ServeRequest(length)
    \/ \E response \in GeminiResponses : GeminiReturn(response)
    \/ \E lines \in GeminiReads : GeminiRead(lines)
    \/ GeminiEnd
    \/ GeminiFail(<<"e">>)

SpecServer == InitServer /\ [][NextServer]_vars

-----------------------------------------------------------------------------
(* Properties *)

\* the ways a handler of sendMessage returns
TerminalAts ==
    {"userInsertFailed", "noHandler", "invokeError", "invalidResponse", "finalized",
     "aiInsertFailed", "fetchFailed", "httpError", "parseError", "streamEnd"}

ExchangeEnded == last.op = "exchange" /\ last.at \in TerminalAts

SendsInFlight == SumCopies({r \in InFlight : r.kind = "send"}, ops)

Running(e) == \E r \in InFlight : r.kind = "send" /\ r.userId = e

Blank(content) == \A k \in 1..Len(content) : IsSpace(content[k])

\* the variables a rejected sendMessage must leave alone: all but the record of the
\* call itself
SendFrame ==
    <<user, currentModel, chatHistory, currentSession, isProcessing, totalCost,
      dbSessions, dbMessages, nextId, ops, remoteCalls, dbLog>>

\* C1: a sendMessage call made while isProcessing is true is a no-op: no message
\* appended locally or durably, no remote call, isProcessing and every session
\* unchanged.
C1_SendWhileProcessingIsNoOp ==
    [][(last'.op = "sendMessage" /\ isProcessing) => UNCHANGED SendFrame]_vars

\* C2: after every completed exchange each local session has totalTokens equal to
\* the sum of the tokens of its messages that have tokens, and totalCost equal to the
\* sum of their costs.
DefinedSum(msgs, Get(_)) ==
    SumSeq([k \in 1..Len(msgs) |-> IF msgs[k].tokens = Undef THEN 0 ELSE Get(msgs[k])])

AggregatesMatch(s) ==
    /\ s.totalTokens = DefinedSum(s.messages, LAMBDA m : m.tokens)
    /\ s.totalCost = DefinedSum(s.messages, LAMBDA m : m.cost)

C2_AggregatesMatchMessages ==
    ExchangeEnded =>
        /\ \A k \in 1..Len(chatHistory) : AggregatesMatch(chatHistory[k])
        /\ currentSession # NoSession => AggregatesMatch(currentSession)

\* C3: whatever the split of the bytes of a stream into reads, the decoder has
\* produced, when the reading ends, the typed events it produces from the stream
\* read in one piece.
C3_DecodingIgnoresReadBoundaries ==
    (last.op = "exchange" /\ last.at \in {"streamEnd", "parseError"})
        => last.rx = DecodeChunk(EncodeStream(last.sent))

\* C4: a streaming exchange that has received chunk events and then done(t, c) ends
\* with the assistant message holding the concatenation of the chunks, tokens t and
\* cost c, and with exactly one durable insert of the assistant message issued, with
\* the figures of done.
RECURSIVE Concat(_)
Concat(texts) == IF texts = <<>> THEN <<>> ELSE Head(texts) \o Concat(Tail(texts))

ChunksThenDone(rx) ==
    /\ rx # <<>>
    /\ rx[Len(rx)].type = "done"
    /\ \A k \in 1..(Len(rx) - 1) : rx[k].type \in {"start", "chunk"}

ChunkTexts(rx) ==
    LET chunks == SelectSeq(rx, LAMBDA e : e.type = "chunk")
    IN Concat([k \in 1..Len(chunks) |-> chunks[k].text])

AiInserts(id) ==
    {w \in BagToSet(dbLog) : w.op = "insertMessage" /\ w.sender = "ai" /\ w.id = id}

C4_StreamedMessageAssembledAndSavedOnce ==
    (last.op = "exchange" /\ last.at = "streamEnd" /\ ChunksThenDone(last.rx)) =>
        LET done == last.rx[Len(last.rx)]
        IN /\ last.msg.content = ChunkTexts(last.rx)
           /\ last.msg.tokens = done.tokens
           /\ last.msg.cost = done.cost
           /\ SumCopies(AiInserts(last.msg.id), dbLog) = 1
           /\ \A w \in AiInserts(last.msg.id) : w.tokens = done.tokens
           /\ \A k \in 1..Len(dbMessages) :
                 dbMessages[k].id = last.msg.id =>
                    /\ dbMessages[k].content = ChunkTexts(last.rx)
                    /\ dbMessages[k].tokens = done.tokens
                    /\ dbMessages[k].cost = done.cost

C4_Witness ==
    /\ last.op = "exchange" /\ last.at = "streamEnd"
    /\ ChunksThenDone(last.rx)
    /\ Len(SelectSeq(last.rx, LAMBDA e : e.type = "chunk")) = 2
    /\ last.msg.content = <<"a", "b">>

\* C5: when the remote call returns an HTTP error the assistant message ends up
\* with an error indicator in its content, isProcessing is false, and no assistant
\* insert with tokens and no aggregate update was issued for the exchange.
DoneShapedWrites(e) ==
    {w \in BagToSet(dbLog) :
        /\ w.ex = e
        /\ \/ w.op = "updateSession"
           \/ w.op = "insertMessage" /\ w.sender = "ai" /\ w.tokens # Undef}

C5_HttpErrorShownAndNothingSaved ==
    (last.op = "exchange" /\ last.at \in {"httpError", "invokeError"}) =>
        /\ HasErrorIndicator(last.msg.content)
        /\ ~isProcessing
        /\ DoneShapedWrites(last.ex) = {}

\* C6: once deleteSession, applied to the only session of the list, has run to its
\* end, the list holds exactly one session and it is the active one; it is a fresh
\* one when the deleted session is gone.
DeleteOfOnlyEnded ==
    \/ last.op = "deleted" /\ last.only
    \/ last.op = "created" /\ last.via = "delete" /\ last.only

C6_DeleteOfOnlySessionLeavesOneFresh ==
    DeleteOfOnlyEnded =>
        /\ Len(chatHistory) = 1
        /\ currentSession = chatHistory[1]
        /\ last.op = "created" =>
              /\ chatHistory[1].id = last.id
              /\ chatHistory[1].messages = <<>>
              /\ chatHistory[1].title = <<"New Chat">>

\* C7: sendMessage with blank content, with no active session or with no principal
\* changes no state: no message, isProcessing not set, no durable or remote call, no
\* error shown.
C7_RejectedSendChangesNothing ==
    [][(/\ last'.op = "sendMessage"
        /\ \/ Blank(last'.content)
           \/ currentSession = NoSession
           \/ user = NoUser)
       => (UNCHANGED SendFrame /\ ~last'.accepted /\ last'.toast = "none")]_vars

C7_Witness ==
    /\ last.op = "sendMessage"
    /\ last.content = <<" ">>
    /\ ~last.accepted
    /\ ~last.busy
    /\ user # NoUser
    /\ currentSession # NoSession

\* C8: every exchange that has started reaches the return of its handler, with
\* isProcessing cleared by it, on every path, when every call it waits for returns:
\* an exchange in flight always has a call that can return, every return leaves
\* strictly less for the exchanges in flight to do, and the step that ends an
\* exchange is a return of its handler that clears isProcessing.
MaxStreamLen ==
    LET n == {Len(EncodeStream(s)) : s \in Streams}
    IN CHOOSE m \in n : \A k \in n : k <= m

Ahead == 100 * (MaxStreamLen + 1)

\* what the exchange r has left to do: the awaits before the stream, the bytes to
\* read, the pieces of the read in hand, the awaits of done
Remaining(r) ==
    CASE r.pc = "insUser" -> Ahead + 4
      [] r.pc = "title" -> Ahead + 3
      [] r.pc \in {"invoke", "fetch"} -> Ahead + 2
      [] r.pc = "insAi" -> 1
      [] r.pc = "doneIns" -> 100 * Len(r.stream) + 10 * Len(r.rest) + 3
      [] r.pc = "doneUpd" -> 100 * Len(r.stream) + 10 * Len(r.rest) + 2
      [] OTHER -> 100 * Len(r.stream) + 1

RECURSIVE SumRemaining(_, _)
SumRemaining(S, B) ==
    IF S = {} THEN 0
    ELSE LET r == CHOOSE x \in S : TRUE
         IN CopiesIn(r, B) * Remaining(r) + SumRemaining(S \ {r}, B)

TotalRemaining(B) == SumRemaining({r \in BagToSet(B) : r.kind = "send"}, B)

C8_EveryExchangeEnds ==
    /\ [](\A e \in ExchangeIds : Running(e) => ENABLED Returns(e))
    /\ [][/\ last'.op # "sendMessage" => TotalRemaining(ops') < TotalRemaining(ops)
          /\ \A e \in ExchangeIds :
                (Running(e) /\ ~Running(e)') =>
                    /\ last'.op = "exchange" /\ last'.ex = e /\ last'.at \in TerminalAts
                    /\ isProcessing' = FALSE]_vars

C8_Witness ==
    /\ last.op = "exchange" /\ last.at = "parseError"
    /\ ~Running(last.ex)
    /\ ~isProcessing
    /\ ops = EmptyBag

\* C9: in every reachable state at most one exchange is in flight.
C9_AtMostOneExchangeInFlight == SendsInFlight <= 1

\* C10: when the durable insert of the user message fails the exchange aborts: the
\* local sessions keep their value, the user message is in none of them, no remote
\* call is made and isProcessing is false.
HasMessage(s, id) ==
    s # NoSession /\ \E k \in 1..Len(s.messages) : s.messages[k].id = id

C10_UserInsertFailureAborts ==
    [][(last'.op = "exchange" /\ last'.at = "userInsertFailed") =>
          /\ UNCHANGED <<currentSession, chatHistory, totalCost, remoteCalls,
                         dbSessions, dbMessages>>
          /\ ~HasMessage(currentSession', last'.ex)
          /\ \A k \in 1..Len(chatHistory') : ~HasMessage(chatHistory'[k], last'.ex)
          /\ \A c \in remoteCalls' : c.ex # last'.ex
          /\ \A r \in BagToSet(ops') : ~(r.kind = "send" /\ r.userId = last'.ex)
          /\ isProcessing' = FALSE]_vars

C10_Witness ==
    /\ last.op = "exchange" /\ last.at = "userInsertFailed"
    /\ ~isProcessing
    /\ \E w \in BagToSet(dbLog) : w.id = last.ex /\ w.sender = "user" /\ ~w.ok

\* C11: when the durable delete fails deleteSession leaves the local list, the active
\* session and the active model as they are; a session leaves the local list only
\* in a step after which its durable row is gone.
C11_FailedDeleteChangesNothing ==
    [][/\ (last'.op = "deleted" /\ ~last'.ok) =>
              UNCHANGED <<chatHistory, currentSession, currentModel, totalCost>>
       /\ \A id \in 1..MaxIds :
              (InList(id) /\ ~InList(id)') => ~SessionExists(id)']_vars

C11_Witness ==
    /\ last.op = "deleted" /\ ~last.ok
    /\ InList(last.id)
    /\ currentSession.id = last.id
    /\ SessionExists(last.id)

\* C12: createNewSession changes local state only when its insert has succeeded: on
\* failure the list and the active session keep their value; on success the new
\* session, with the title "New Chat", no messages, zero aggregates and the model
\* that was current at the call, is the head of the list and the active session.
C12_CreateMutatesOnlyOnSuccess ==
    [][/\ last'.op = "createNewSession" =>
              \E r \in BagToSet(ops') :
                  /\ r.kind = "create"
                  /\ r.newSession.id = last'.id
                  /\ r.newSession.model = currentModel
                  /\ UNCHANGED <<chatHistory, currentSession, totalCost, dbSessions>>
       /\ (last'.op = "created" /\ ~last'.ok) =>
              UNCHANGED <<chatHistory, currentSession, totalCost, dbSessions>>
       /\ (last'.op = "created" /\ last'.ok) =>
              \E r \in BagToSet(ops) :
                  /\ r.kind = "create" /\ r.newSession.id = last'.id
                  /\ chatHistory' =
                        <<[id |-> last'.id, title |-> <<"New Chat">>, messages |-> <<>>,
                           model |-> r.newSession.model, totalCost |-> 0,
                           totalTokens |-> 0]>> \o chatHistory
                  /\ currentSession' = chatHistory'[1]]_vars

C12_Witness ==
    /\ last.op = "created" /\ last.ok /\ last.via = "ui"
    /\ Len(chatHistory) = 2
    /\ currentSession = chatHistory[1]
    /\ currentSession.id = last.id
    /\ chatHistory[1].model # chatHistory[2].model

\* C13 (as stated): when the load of a principal with no durable session ends, the
\* local list holds exactly one session, created with the title "New Chat", no
\* messages and zero aggregates, and it is the active session.
FreshSession(s, id) ==
    /\ s.id = id
    /\ s.title = <<"New Chat">>
    /\ s.messages = <<>>
    /\ s.totalCost = 0 /\ s.totalTokens = 0

C13_LoadOfNewPrincipalLeavesOneSession ==
    (last.op = "created" /\ last.via = "load") =>
        /\ Len(chatHistory) = 1
        /\ FreshSession(chatHistory[1], last.id)
        /\ currentSession = chatHistory[1]

\* C13 (amended): the load of a principal with no durable session ends with exactly
\* one session, fresh and active, when the insert of the session it creates
\* succeeds and no other load has put a session in the list meanwhile; when the
\* insert fails the list and the active session keep their value.
C13_LoadOfNewPrincipalCreatesWhenInsertSucceeds ==
    [][(last'.op = "created" /\ last'.via = "load") =>
          IF last'.ok
          THEN chatHistory = <<>> =>
                  /\ Len(chatHistory') = 1
                  /\ FreshSession(chatHistory'[1], last'.id)
                  /\ currentSession' = chatHistory'[1]
                  /\ \E k \in 1..Len(dbSessions') : dbSessions'[k].id = last'.id
          ELSE UNCHANGED <<chatHistory, currentSession>>]_vars

C13_Witness ==
    /\ last.op = "created" /\ last.via = "load" /\ last.ok
    /\ user # NoUser
    /\ Len(chatHistory) = 1
    /\ currentSession = chatHistory[1]
    /\ Len(dbSessions) = 1

\* C14: when the fetch of the sessions fails, the load leaves no session in the local
\* list and no active session, whatever the store held before the load started.
C14_FailedFetchLeavesStoreEmpty ==
    (last.op = "load" /\ last.result = "fetchError") =>
        /\ chatHistory = <<>>
        /\ currentSession = NoSession

\* C15: the load that runs with no principal resets the list to empty and the active
\* session to none, and creates no session: no insert is issued, no handler started.
C15_LoadWithoutPrincipalResets ==
    [][last'.op = "logout" =>
          /\ chatHistory' = <<>>
          /\ currentSession' = NoSession
          /\ totalCost' = 0
          /\ UNCHANGED <<dbSessions, dbMessages, ops, nextId>>]_vars

C15_Witness ==
    /\ last.op = "logout"
    /\ user = NoUser
    /\ chatHistory = <<>>
    /\ dbSessions # <<>>
    /\ ops = EmptyBag

\* C16: when the active session is deleted and other sessions remain, the active
\* session becomes the first entry of the list other than the deleted one, which is
\* a session of the list and not the deleted one; deleteSession creates a session
\* only when none remains.
CreatesViaDelete(B) == {r \in BagToSet(B) : r.kind = "create" /\ r.via = "delete"}

C16_DeleteOfActiveSelectsNext ==
    [][/\ (last'.op = "deleted" /\ last'.ok /\ last'.outcome = "next") =>
              /\ chatHistory' # <<>>
              /\ currentSession' = chatHistory'[1]
              /\ currentSession'.id # last'.id
       /\ (CreatesViaDelete(ops') \ CreatesViaDelete(ops) # {}) => chatHistory' = <<>>]_vars

\* C17: selectSession(id) with id in the local list makes that session the active one
\* and its stored model the active model; with id not in the list it changes
\* nothing and raises no error.
C17_SelectSessionSetsSessionAndModel ==
    [][last'.op = "select" =>
          /\ IF InList(last'.id)
             THEN \E k \in 1..Len(chatHistory) :
                     /\ chatHistory[k].id = last'.id
                     /\ currentSession' = chatHistory[k]
                     /\ currentModel' = chatHistory[k].model
             ELSE /\ UNCHANGED <<currentSession, currentModel>>
                  /\ last'.toast = "none"
          /\ UNCHANGED <<chatHistory, totalCost, user, isProcessing, dbSessions,
                         dbMessages, ops, nextId>>]_vars

C17_Witness ==
    /\ last.op = "select" /\ last.found
    /\ Len(chatHistory) = 2
    /\ chatHistory[2].id = last.id
    /\ currentSession = chatHistory[2]
    /\ currentModel = chatHistory[2].model
    /\ chatHistory[1].model # chatHistory[2].model

\* (C17, the other case: an id that is not in the list)
C17_WitnessAbsent ==
    /\ last.op = "select" /\ ~last.found
    /\ chatHistory # <<>>
    /\ currentSession = chatHistory[1]

\* C18: totalCost equals the sum of the cumulative cost of the sessions of the local
\* list, after load, create, delete and every finalized exchange.
C18_TotalCostIsSumOfSessions ==
    totalCost = SumSeq([k \in 1..Len(chatHistory) |-> chatHistory[k].totalCost])

C18_Witness ==
    /\ last.op = "deleted" /\ last.ok
    /\ Len(chatHistory) = 1
    /\ totalCost > 0
    /\ totalCost = chatHistory[1].totalCost

\* C19: the usage estimator returns tokens = max(5, ceil(length(text) / 2)) for
\* every text and model: never below 5, 5 for "Hello", and the same for a text and
\* a model whatever the state it is called in.
C19_TokenEstimateHasFloor ==
    last.op = "usage" =>
        LET n == JsLength(last.message)
            t == last.usage.tokens
        IN /\ t >= 5
           /\ 2 * t >= n
           /\ t = 5 \/ 2 * (t - 1) < n
           /\ last.message = Hello => t = 5
           /\ last.usage.cost = t * (IF last.model = "openai" THEN 5 ELSE 3)

C19_Witness ==
    /\ last.op = "usage"
    /\ last.message = Hello
    /\ last.usage.tokens = 5
    /\ currentModel # last.model

\* (C19, above the floor: a canned answer of 68 characters)
C19_WitnessLong ==
    /\ last.op = "usage"
    /\ JsLength(last.message) = 68
    /\ last.usage.tokens = 34

\* C20: when the decoder has received an error event, the exchange ends with the
\* error description appended, after "\n\nError: ", to the content of the assistant
\* message that the active session shows; the handler has returned, and no insert of
\* the assistant message and no update of the session aggregates was issued for the
\* exchange.
ErrorReceived(rx) == \E k \in 1..Len(rx) : rx[k].type = "error"

C20_ErrorEventAnnotatesAndSavesNothing ==
    (ExchangeEnded /\ ErrorReceived(last.rx)) =>
        LET e == last.rx[Len(last.rx)]
        IN /\ e.type = "error"
           /\ last.msg.content = ChunkTexts(last.rx) \o StreamErrorPrefix \o e.text
           /\ \E k \in 1..Len(currentSession.messages) :
                 /\ currentSession.messages[k].id = last.msg.id
                 /\ currentSession.messages[k].content = last.msg.content
           /\ ~Running(last.ex)
           /\ AiInserts(last.msg.id) = {}
           /\ DoneShapedWrites(last.ex) = {}

C20_Witness ==
    /\ ExchangeEnded /\ last.at = "streamEnd"
    /\ ErrorReceived(last.rx)
    /\ last.msg.content = <<"a">> \o StreamErrorPrefix \o <<"e">>
    /\ ~isProcessing

\* C21: when the stream closes and the server has written neither a done nor an
\* error event, isProcessing is false, the active session shows the assistant message
\* with the content of the chunks received, and no insert of the assistant message
\* was issued.
StreamCutShort ==
    /\ last.op = "exchange" /\ last.at = "streamEnd"
    /\ \A k \in 1..Len(last.sent) : last.sent[k].type \notin {"done", "error"}

C21_CutStreamKeepsPartialUnsaved ==
    StreamCutShort =>
        /\ ~isProcessing
        /\ last.msg.content = ChunkTexts(last.rx)
        /\ \E k \in 1..Len(currentSession.messages) :
              /\ currentSession.messages[k].id = last.msg.id
              /\ currentSession.messages[k].content = last.msg.content
        /\ AiInserts(last.msg.id) = {}

C21_Witness ==
    /\ StreamCutShort
    /\ last.msg.content = <<"a">>
    /\ ~isProcessing

\* C22: an event whose type is none of start, chunk, done, error is ignored: a read
\* that brings only such events changes nothing but the position in the stream, and
\* the events that follow are processed as if it had not been there.
KnownTypes == {"start", "chunk", "done", "error"}

\* the exchange r has become r2 by a read that brought events of other types only
OtherEventsRead(r, r2) ==
    /\ r.kind = "send" /\ r.pc = "read"
    /\ r2.kind = "send" /\ r2.pc = "read" /\ r2.userId = r.userId
    /\ Len(r2.rx) > Len(r.rx)
    /\ \A k \in (Len(r.rx) + 1)..Len(r2.rx) : r2.rx[k].type \notin KnownTypes

OtherThenDone(rx) ==
    /\ \E k \in 1..Len(rx) : rx[k].type \notin KnownTypes
    /\ rx[Len(rx)].type = "done"

C22_OtherEventTypesAreIgnored ==
    [][/\ \A r \in InFlight : \A r2 \in InFlight' :
             OtherEventsRead(r, r2) =>
                 /\ r2 = [r EXCEPT !.stream = r2.stream, !.rx = r2.rx]
                 /\ UNCHANGED <<reactVars, storeVars, dbLog, remoteCalls>>
       /\ (last'.op = "exchange" /\ last'.at = "streamEnd" /\ OtherThenDone(last'.rx)) =>
             /\ last'.msg.content = ChunkTexts(last'.rx)
             /\ last'.msg.tokens = last'.rx[Len(last'.rx)].tokens
             /\ last'.msg.cost = last'.rx[Len(last'.rx)].cost]_vars

C22_Witness ==
    /\ last.op = "exchange" /\ last.at = "streamEnd"
    /\ OtherThenDone(last.rx)
    /\ last.msg.content = <<"a">>
    /\ last.msg.tokens = 12

\* C23: the token and cost aggregates of an exchange are applied to the local session
\* object and to the entry of the session list with its id only when the insert of
\* the assistant message and the update of the session have both succeeded.
AggregatesGrow(sid) ==
    \/ \E k \in 1..Len(chatHistory), j \in 1..Len(chatHistory') :
          /\ chatHistory[k].id = sid /\ chatHistory'[j].id = sid
          /\ \/ chatHistory'[j].totalTokens > chatHistory[k].totalTokens
             \/ chatHistory'[j].totalCost > chatHistory[k].totalCost
    \/ /\ currentSession # NoSession /\ currentSession' # NoSession
       /\ currentSession.id = sid /\ currentSession'.id = sid
       /\ \/ currentSession'.totalTokens > currentSession.totalTokens
          \/ currentSession'.totalCost > currentSession.totalCost

SavedOk(e) ==
    /\ \E w \in BagToSet(dbLog) :
          w.ex = e /\ w.op = "insertMessage" /\ w.sender = "ai" /\ w.ok
    /\ \E w \in BagToSet(dbLog) : w.ex = e /\ w.op = "updateSession" /\ w.ok

C23_AggregatesAppliedAfterDurableSuccess ==
    [][\A r \in InFlight :
          (r.kind = "send" /\ AggregatesGrow(r.cs.id)) => SavedOk(r.userId)']_vars

\* C23, as the code has it: the aggregates of an exchange are applied locally only
\* when the insert of the assistant message and the update of the session have both
\* returned, whether they succeeded or failed.
Written(e) ==
    /\ \E w \in BagToSet(dbLog) : w.ex = e /\ w.op = "insertMessage" /\ w.sender = "ai"
    /\ \E w \in BagToSet(dbLog) : w.ex = e /\ w.op = "updateSession"

C23_AggregatesAppliedAfterDurableWrites ==
    [][\A r \in InFlight :
          (r.kind = "send" /\ AggregatesGrow(r.cs.id)) => Written(r.userId)']_vars

C23_Witness ==
    /\ currentSession # NoSession /\ currentSession.totalTokens = 12
    /\ chatHistory[1].totalTokens = 12
    /\ dbSessions[1].total_tokens = 0
    /\ Written(2) /\ ~SavedOk(2)


\* C24: when the insert of the assistant message or the update of the session has
\* failed, the exchange still ends with the assistant message, with its content, in
\* the local active session.
FailedSaves(e) ==
    {w \in BagToSet(dbLog) :
        /\ w.ex = e /\ ~w.ok
        /\ \/ w.op = "updateSession"
           \/ w.op = "insertMessage" /\ w.sender = "ai"}

C24_FailedSaveKeepsLocalMessage ==
    (ExchangeEnded /\ FailedSaves(last.ex) # {}) =>
        /\ currentSession # NoSession
        /\ \E k \in 1..Len(currentSession.messages) :
              /\ currentSession.messages[k].id = last.msg.id
              /\ currentSession.messages[k].content = last.msg.content

\* C25: every request to the remote model carries the messages of the session in
\* order, ending with the user message just appended, as sender and content, with the
\* id of the active session and the id of the principal.
RequestOf(q, r) ==
    /\ r.kind = "send" /\ r.userId = q.ex
    /\ q.session_id = r.cs.id
    /\ q.user_id = r.user
    /\ q.messages =
          ApiMessages(Append(r.cs.messages, UserMessage(r.userId, r.content, r.model)))

C25_RemoteCallCarriesHistory ==
    [][\A q \in remoteCalls' \ remoteCalls :
          /\ q.messages # <<>>
          /\ q.messages[Len(q.messages)].sender = "user"
          /\ \E r \in InFlight : RequestOf(q, r)]_vars

\* C26: in streaming mode the assistant message is attached, with empty content, to
\* the message list of the active session before any event is processed, and a read
\* that brings chunk events appends their texts to that one message, with no durable
\* write.
NewEvents(r, r2) == SubSeq(r2.rx, Len(r.rx) + 1, Len(r2.rx))

ChunksRead(r, r2) ==
    /\ r.kind = "send" /\ r.pc = "read"
    /\ r2.kind = "send" /\ r2.userId = r.userId
    /\ Len(r2.rx) > Len(r.rx)
    /\ \A k \in 1..Len(NewEvents(r, r2)) :
          NewEvents(r, r2)[k].type \in {"start", "chunk", "done"}
    /\ \E k \in 1..Len(NewEvents(r, r2)) : NewEvents(r, r2)[k].type = "chunk"

ShownOnce(session, id, content) ==
    /\ session # NoSession
    /\ \E k \in 1..Len(session.messages) :
          /\ session.messages[k].id = id
          /\ session.messages[k].content = content
          /\ \A j \in 1..Len(session.messages) : session.messages[j].id = id => j = k

C26_PlaceholderThenChunksInPlace ==
    [][/\ (last'.op = "exchange" /\ last'.at = "streaming") =>
             /\ last'.rx = <<>>
             /\ last'.msg.sender = "ai"
             /\ ShownOnce(currentSession', last'.msg.id, <<>>)
             /\ currentSession'.messages[Len(currentSession'.messages)].id = last'.msg.id
             /\ UNCHANGED <<storeVars, dbLog>>
       /\ \A r \in InFlight : \A r2 \in InFlight' :
             ChunksRead(r, r2) =>
                 /\ r2.ai.id = r.aiId
                 /\ r2.ai.content = r.ai.content \o ChunkTexts(NewEvents(r, r2))
                 /\ ShownOnce(currentSession', r.aiId, r2.ai.content)
                 /\ UNCHANGED <<storeVars, dbLog>>]_vars

C26_Witness ==
    \E r \in InFlight :
        /\ r.kind = "send" /\ r.pc = "read"
        /\ Len(SelectSeq(r.rx, LAMBDA e : e.type = "chunk")) = 2
        /\ ShownOnce(currentSession, r.aiId, <<"a", "b">>)
        /\ AiInserts(r.aiId) = {}

\* C27: once an exchange has appended its user message, the title of the active
\* session is the first user message of the session cut to 30 characters, with an
\* ellipsis, and so is the durable title when the update of the title has succeeded.
TitleOf(content) == Slice(content, TitleLen) \o Ellipsis

TitleSaved(e) ==
    \E w \in BagToSet(dbLog) : w.op = "updateTitle" /\ w.ex = e /\ w.ok

C27_TitleDerivesFromFirstUserMessage ==
    (/\ ExchangeEnded /\ last.at # "userInsertFailed"
     /\ currentSession # NoSession /\ currentSession.messages # <<>>) =>
        LET first == currentSession.messages[1]
        IN /\ currentSession.title = TitleOf(first.content)
           /\ \A k \in 1..Len(dbSessions) :
                 (dbSessions[k].id = currentSession.id /\ TitleSaved(first.id)) =>
                     dbSessions[k].title = TitleOf(first.content)

\* C28: tokens and cost are found on assistant messages only, and a message of the
\* active session that has them keeps its content, tokens and cost in every later
\* state, whatever events arrive.
SameFigures(m, m2) ==
    m2.content = m.content /\ m2.tokens = m.tokens /\ m2.cost = m.cost

C28_FinalizedMessageNeverChanges ==
    [][(currentSession # NoSession /\ currentSession' # NoSession) =>
          \A k \in 1..Len(currentSession.messages) :
             currentSession.messages[k].tokens # Undef =>
                /\ currentSession.messages[k].sender = "ai"
                /\ \A j \in 1..Len(currentSession'.messages) :
                      currentSession'.messages[j].id = currentSession.messages[k].id =>
                          SameFigures(currentSession.messages[k],
                                      currentSession'.messages[j])]_vars

\* C29: the local message list of a session is append-only: whatever the interleaving
\* of sendMessage calls and of their completions, the messages a session holds stay in
\* it, at their places, in every later state.
KeepsMessages(s, s2) ==
    /\ Len(s2.messages) >= Len(s.messages)
    /\ \A k \in 1..Len(s.messages) : s2.messages[k].id = s.messages[k].id

C29_MessageListIsAppendOnly ==
    [][/\ (/\ currentSession # NoSession /\ currentSession' # NoSession
           /\ currentSession'.id = currentSession.id) =>
             KeepsMessages(currentSession, currentSession')
       /\ \A k \in 1..Len(chatHistory), j \in 1..Len(chatHistory') :
             chatHistory'[j].id = chatHistory[k].id =>
                 KeepsMessages(chatHistory[k], chatHistory'[j])]_vars

\* C30: the cumulative token count and the cumulative cost of a session never
\* decrease, in the active session, in the session list and in the durable row,
\* whatever the interleaving of the exchanges on it.
TotalsKept(s, s2) ==
    s2.totalTokens >= s.totalTokens /\ s2.totalCost >= s.totalCost

C30_SessionTotalsNeverDecrease ==
    [][/\ (/\ currentSession # NoSession /\ currentSession' # NoSession
           /\ currentSession'.id = currentSession.id) =>
             TotalsKept(currentSession, currentSession')
       /\ \A k \in 1..Len(chatHistory), j \in 1..Len(chatHistory') :
             chatHistory'[j].id = chatHistory[k].id =>
                 TotalsKept(chatHistory[k], chatHistory'[j])
       /\ \A k \in 1..Len(dbSessions), j \in 1..Len(dbSessions') :
             dbSessions'[j].id = dbSessions[k].id =>
                 /\ dbSessions'[j].total_tokens >= dbSessions[k].total_tokens
                 /\ dbSessions'[j].total_cost >= dbSessions[k].total_cost]_vars

-----------------------------------------------------------------------------
(* C31 *)

\* a load (fetchChatHistory, with the createNewSession it awaits) is in flight
LoadInFlight ==
    \E r \in InFlight : r.kind = "load" \/ (r.kind = "create" /\ r.via = "load")

\* the durable store holds the session and names the principal as its owner
OwnedBy(sid, u) ==
    \E j \in 1..Len(dbSessions) : dbSessions[j].id = sid /\ dbSessions[j].user_id = u

\* C31: in every state in which no load is in flight, every session of the local
\* list is owned by the current principal, and the list is empty when there is no
\* principal, also when the principal changed or signed out while an earlier load
\* was in flight.
C31_LocalListBelongsToPrincipal ==
    ~LoadInFlight =>
        /\ user = NoUser => chatHistory = <<>>
        /\ \A k \in 1..Len(chatHistory) : OwnedBy(chatHistory[k].id, user)

-----------------------------------------------------------------------------
(* C32 *)

MessagesOf(s) == IF s = NoSession THEN {} ELSE {s.messages[k] : k \in 1..Len(s.messages)}

\* the message objects that observers can reach: those of the active session and
\* of the sessions of the list
Published ==
    MessagesOf(currentSession)
    \cup UNION {MessagesOf(chatHistory[k]) : k \in 1..Len(chatHistory)}

\* the assistant message objects that running handlers still hold and change
Live == {r.ai : r \in {x \in InFlight : x.kind = "send"}}

\* C32: every mutation of the session list and of the active session is a
\* whole-object replacement: a message object that has been published to observers
\* has the same fields ever after, wherever the same object is seen again.
C32_PublishedObjectsAreNeverMutated ==
    [][\A m \in Published : m.obj # 0 =>
          \A m2 \in Published' \cup Live' : m2.obj = m.obj => m2 = m]_vars

-----------------------------------------------------------------------------
(* C33 *)

\* C33: the completion of an exchange never changes which session is active: when
\* the user has selected another session (or created one) while the exchange was in
\* flight, that session is still the active one after the exchange has finalized
\* or failed.
C33_CompletionKeepsActiveSession ==
    [][(last'.op = "exchange" /\ last'.at \in TerminalAts)
          => currentSession'.id = currentSession.id]_vars

-----------------------------------------------------------------------------
(* C34 *)

\* C34: whenever no operation is in flight, the active session is absent or has
\* the id of a session of the local list; in particular a session deleted while
\* its exchange was in flight is not the active session after that exchange has
\* completed.
C34_ActiveSessionIsInList ==
    ops = EmptyBag => (currentSession = NoSession \/ InList(currentSession.id))

-----------------------------------------------------------------------------
(* C35 *)

\* the session object and the list entry show the same conversation
SameSession(s, e) ==
    /\ s.messages = e.messages
    /\ s.title = e.title
    /\ s.totalTokens = e.totalTokens
    /\ s.totalCost = e.totalCost

\* C35: whenever no exchange is in flight, the active session object and the entry
\* of the session list with the same id have the same messages, title and
\* aggregates, after successful exchanges and after every failure path (remote
\* error, invalid response, interrupted stream).
C35_ActiveSessionMatchesListEntry ==
    (SendsInFlight = 0 /\ currentSession # NoSession) =>
        \A k \in 1..Len(chatHistory) :
            chatHistory[k].id = currentSession.id => SameSession(currentSession, chatHistory[k])

-----------------------------------------------------------------------------
(* C36 *)

\* C36: isProcessing is true in every state in which an exchange is in flight: it
\* is set before the first suspension point of an exchange and becomes false only
\* when no exchange remains in flight.
C36_ProcessingWhileExchangeInFlight ==
    (\E r \in InFlight : r.kind = "send") => isProcessing

-----------------------------------------------------------------------------
(* C37 *)

\* C37: load creates a session by itself only when the durable store returned no
\* session for the principal; a failure to fetch the messages of one or more
\* existing sessions never causes a new session to be created.
C37_LoadCreatesOnlyForEmptyStore ==
    [][\A r2 \in InFlight' :
          (r2.kind = "create" /\ r2.via = "load" /\ r2 \notin InFlight)
              => SelectSessions(r2.user) = <<>>]_vars

-----------------------------------------------------------------------------
(* C38 *)

\* the last step ended an exchange that went through its final update
FinalizedNow ==
    /\ ExchangeEnded
    /\ \/ last.at = "finalized"
       \/ last.at = "streamEnd" /\ \E k \in 1..Len(last.rx) : last.rx[k].type = "done"

\* every durable write of the exchange e succeeded
AllWritesOk(e) == \A w \in BagToSet(dbLog) : w.ex = e => w.ok

\* what fetchChatHistory builds for the session sid from the rows of the store
Reloaded(sid) ==
    FormatSession(Find(dbSessions, LAMBDA x : x.id = sid, NoSession), SelectMessages(sid))

SameConversation(s, t) ==
    /\ Len(s.messages) = Len(t.messages)
    /\ \A k \in 1..Len(s.messages) :
          k <= Len(t.messages) =>
              /\ s.messages[k].id = t.messages[k].id
              /\ SameFigures(s.messages[k], t.messages[k])
    /\ s.title = t.title
    /\ s.totalTokens = t.totalTokens
    /\ s.totalCost = t.totalCost

\* C38: after a finalized exchange whose durable writes all succeeded, reloading
\* the session from the durable store yields the same message ids, contents, tokens
\* and costs in the same order, the same title and the same cumulative tokens and
\* cost as the local session.
C38_ReloadYieldsLocalSession ==
    (FinalizedNow /\ AllWritesOk(last.ex) /\ SessionExists(currentSession.id))
        => SameConversation(currentSession, Reloaded(currentSession.id))

-----------------------------------------------------------------------------
(* C39 *)

\* the insert of the message id under the session sid has returned without error
InsertedOk(id, sid) ==
    \E w \in BagToSet(dbLog) :
        w.op = "insertMessage" /\ w.id = id /\ w.session = sid /\ w.ok

UserMessagesSaved(s) ==
    s # NoSession =>
        \A k \in 1..Len(s.messages) :
            s.messages[k].sender = "user" => InsertedOk(s.messages[k].id, s.id)

\* C39: every user message of a local session's message list has been inserted
\* in the durable store, without error and under that session's id, by the time it
\* is in the list.
C39_LocalUserMessagesAreSaved ==
    /\ UserMessagesSaved(currentSession)
    /\ \A k \in 1..Len(chatHistory) : UserMessagesSaved(chatHistory[k])

\* an exchange has put its user message in the active session, while the user
\* insert of another exchange has failed
C39_Witness ==
    /\ last.op = "exchange" /\ last.at = "userMessageAppended"
    /\ HasMessage(currentSession, last.ex)
    /\ \E w \in BagToSet(dbLog) : w.op = "insertMessage" /\ w.sender = "user" /\ ~w.ok

-----------------------------------------------------------------------------
(* C40 *)

OfType(out, types) == {k \in 1..Len(out) : out[k].type \in types}

Starts(out) == OfType(out, {"start"})

Chunks(out) == OfType(out, {"chunk"})

Terminals(out) == OfType(out, {"done", "error"})

\* start is written at most once and before every chunk; at most one terminal
\* event is written and nothing after it; a closed stream has exactly one
OrderedAndTerminated(st) ==
    /\ Cardinality(Starts(st.out)) <= 1
    /\ \A s \in Starts(st.out) : \A c \in Chunks(st.out) : s < c
    /\ Cardinality(Terminals(st.out)) <= 1
    /\ \A t \in Terminals(st.out) : t = Len(st.out)
    /\ st.pc = "closed" => Cardinality(Terminals(st.out)) = 1

\* C40, as stated: on every path of the streaming edge function the events written
\* are an optional start followed by one or more chunks (start at most once and
\* before every chunk), then exactly one terminal event, done or error and never
\* both, with no event written after the terminal one.
C40_StreamIsChunksThenOneTerminal ==
    last.op = "serve" =>
        /\ OrderedAndTerminated(last)
        /\ last.pc = "closed" => Chunks(last.out) # {}

\* C40, as the code has it: the events written are zero or more chunks, preceded
\* by exactly one start when there is a chunk and by none when there is not, then
\* exactly one terminal event, done or error and never both, with no event written
\* after the terminal one.  A Gemini error and an answer without text give the
\* terminal event alone.
C40_StreamIsOptionalChunksThenOneTerminal ==
    last.op = "serve" =>
        /\ OrderedAndTerminated(last)
        /\ Chunks(last.out) # {} <=> Starts(last.out) = {1}
        /\ Chunks(last.out) = {} => Starts(last.out) = {}

\* Gemini answered, its lines had no text, and the stream was closed with done alone
C40_Witness ==
    /\ last.op = "serve" /\ last.pc = "closed" /\ last.reads > 0
    /\ Len(last.out) = 1 /\ last.out[1].type = "done"

\* an answer in two chunks that ended with an error
C40_WitnessChunks ==
    /\ last.op = "serve" /\ last.pc = "closed"
    /\ Len(last.out) = 4 /\ last.out[4].type = "error"

====
